---- MODULE Spec2Model ----
(***************************************************************************)
(* Playback controller of the VRM character viewer.                        *)
(*                                                                         *)
(* AnimationController (src/src/AnimationController.js, lines 7-146) owns  *)
(* the clip cache, the current action, the idle loop and its dwell timer.  *)
(* It drives a THREE.AnimationMixer; the parts of the mixer the controller *)
(* uses (clipAction, reset, play, crossFadeTo, update) are modelled by     *)
(* what three.js does at the call sites.                                   *)
(*                                                                         *)
(* Time.  Mixer time is counted in ticks of a quarter second.  The mixer's *)
(* absolute time is not stored: a weight interpolant keeps the time that   *)
(* has elapsed since it was scheduled (mixer.time - times[0]) and its      *)
(* length (times[1] - times[0]), which is all that evaluate() reads.       *)
(* The dwell timer runs on wall-clock milliseconds; a pending timer keeps  *)
(* the delay that is left, and firing the timer that is due next lets      *)
(* that much wall-clock time pass.  Frames and timers interleave freely    *)
(* (the time scale decouples mixer time from wall-clock time).             *)
(*                                                                         *)
(* Weights are exact fractions <<numerator, denominator>>.  An action's    *)
(* _effectiveWeight is not stored: it is the value _updateWeight computes  *)
(* from the action's enabled flag and weight interpolant (EffectiveWeight),*)
(* which every update recomputes before anything reads it.                 *)
(***************************************************************************)
EXTENDS Integers, Sequences, FiniteSets, TLC

\* ---------------------------------------------------------------- bounds

\* Largest deltaTime (in ticks) one frame hands to update().
MaxDelta == 1

\* Math.random() is drawn from {0/RandDen, ..., (RandDen-1)/RandDen}.
RandDen == 2

\* ------------------------------------------------------- program constants

\* Default cross-fade of playAnimation: 0.5 s = 2 ticks.
FadeDefault == 2

\* randomInterval = Math.random() * (30000 - 5000) + 5000, in milliseconds.
DwellMin == 5000

DwellMax == 30000

\* The keys of animationFiles, in insertion order (a configuration with two
\* idle-pool clips and one clip outside the pool).
AnimationFiles == <<"idle", "idle_happy", "bow">>

\* this.idleAnimations, in order: "bored" is in the pool but has no entry in
\* animationFiles (the file is configured as "idle_bored"), so it is never
\* in the cache.
IdleAnimations == <<"idle", "idle_happy", "bored">>

IdlePool == {IdleAnimations[i] : i \in 1..Len(IdleAnimations)}

Clips == {AnimationFiles[i] : i \in 1..Len(AnimationFiles)}

\* Every name a caller can pass to playAnimation.
Names == Clips \cup IdlePool

\* clip.duration of each retargeted clip, in ticks.
ClipDuration(name) == IF name = "bow" THEN 3 ELSE 2

\* The fade durations callers pass: 0 (loadAllAnimations) and the default.
FadeTimes == {0, FadeDefault}

\* The calls of playAnimation: the GUI buttons (any name, looping, default
\* fade), and the clip outside the idle pool played once with either fade.
PlayCalls ==
  {<<name, TRUE, FadeDefault>> : name \in Names}
    \cup {<<"bow", FALSE, fadeTime>> : fadeTime \in FadeTimes}

\* gui.add(params, "timeScale", 0.0, 2.0, 0.001): the slider, sampled at its
\* lower end and at the mixer's default.
TimeScales == {0, 1}

DeltaTimes == 0..MaxDelta

NoAction == "null"

NoTimer == 0

\* ---------------------------------------------------------------- fractions

\* Euclid's algorithm, on values
Euclid[a \in Int, b \in Int] == IF b = 0 THEN a ELSE Euclid[b, a % b]

GCD(a, b) == Euclid[a, b]

\* n/d in lowest terms, on values
Reduced[n \in Int, d \in Int] ==
  LET g == Euclid[n, d] IN IF g = 0 THEN <<0, 1>> ELSE <<n \div g, d \div g>>

Frac(n, d) == Reduced[n, d]

One == <<1, 1>>

Zero == <<0, 1>>

FracMul(x, y) == Frac(x[1] * y[1], x[2] * y[2])

FracAdd(x, y) == Frac(x[1] * y[2] + y[1] * x[2], x[2] * y[2])

Min(a, b) == IF a <= b THEN a ELSE b

\* ------------------------------------------------------------------ state

VARIABLES
  animations,        \* this.animations: the names in the clip cache
  currentAction,     \* this.currentAction: the clip of the action, or NoAction
  currentActionName, \* this.currentActionName
  idleLoopActive,    \* this.idleLoopActive
  idleTimeout,       \* this.idleTimeout: a timer handle, or NoTimer
  timers,            \* the browser's pending timeouts: handle -> [delay, stale]
  actions,           \* the mixer's action of each clip
  timeScale,         \* mixer.timeScale
  accuIndex,         \* mixer._accuIndex, flipped by every update
  loadIdx,           \* loadAllAnimations: index of the clip being awaited
  attempts,          \* how often loadMixamoAnimation was called per clip
  failed,            \* the clips whose load threw
  xfade,             \* the cross-fade the last playAnimation started
  dwell,             \* wall-clock ms since the idle loop last selected a clip
  lastCall,          \* the operation that ran last
  loadRuns,          \* two runs of loadAllAnimations on one controller
  retarget,          \* one call of loadMixamoAnimation: its input and result
  page,              \* main.js: the frame loop and the arm-space overlay
  lookAt,            \* the LookAtController and the VRM's lookAt binding
  face               \* the ExpressionController and the expression manager

\* The variables of the playback controller and its mixer.
controllerVars == <<animations, currentAction, currentActionName,
                    idleLoopActive, idleTimeout, timers, actions, timeScale,
                    accuIndex, loadIdx, attempts, failed, xfade, dwell,
                    lastCall>>

\* The variables the playback controller's steps leave alone.
elsewhere == <<loadRuns, retarget, page, lookAt, face>>

vars == <<controllerVars, elsewhere>>

\* ------------------------------------------------------- three.js actions

NoFade == [on |-> FALSE, elapsed |-> 0, dur |-> 0, v0 |-> 1, v1 |-> 1]

\* new AnimationAction(mixer, clip): not yet activated.
NewAction ==
  [active |-> FALSE, time |-> 0, loop |-> TRUE, clampWhenFinished |-> FALSE,
   paused |-> FALSE, enabled |-> TRUE, fade |-> NoFade]

\* action.reset(): paused = false, enabled = true, time = 0, stopFading().
ResetAction(a) ==
  [a EXCEPT !.paused = FALSE, !.enabled = TRUE, !.time = 0, !.fade = NoFade]

\* action.play(): mixer._activateAction(action).
PlayAction(a) == [a EXCEPT !.active = TRUE]

\* action._scheduleFading(duration, weightNow, weightThen).
ScheduleFading(a, duration, weightNow, weightThen) ==
  [a EXCEPT !.fade = [on |-> TRUE, elapsed |-> 0, dur |-> duration,
                      v0 |-> weightNow, v1 |-> weightThen]]

FadeIn(a, duration) == ScheduleFading(a, duration, 0, 1)

FadeOut(a, duration) == ScheduleFading(a, duration, 1, 0)

\* interpolant.evaluate(time)[0] of a two-point linear interpolant: the last
\* value at and after times[1], the linear blend before it.
InterpolantValue(f) ==
  IF f.elapsed >= f.dur THEN Frac(f.v1, 1)
  ELSE Frac(f.v0 * (f.dur - f.elapsed) + f.v1 * f.elapsed, f.dur)

\* Mutant of UpdateTime: a clip played once is not clamped at its end but
\* wraps like a looping one.
UpdateTimeWraps(a, name, deltaTime) ==
  LET duration == ClipDuration(name)
      time == a.time + deltaTime
  IN IF deltaTime = 0 THEN a
     ELSE IF time >= duration
       THEN [a EXCEPT !.time = time - duration * (time \div duration)]
       ELSE [a EXCEPT !.time = time]

\* action._updateTime(deltaTime), with action.timeScale = 1 and
\* repetitions = Infinity.
UpdateTime(a, name, deltaTime) ==
  LET duration == ClipDuration(name)
      time == a.time + deltaTime
  IN IF deltaTime = 0 THEN a
     ELSE IF ~a.loop
       THEN IF time >= duration
              THEN IF a.clampWhenFinished
                     THEN [a EXCEPT !.time = duration, !.paused = TRUE]
                     ELSE [a EXCEPT !.time = duration, !.enabled = FALSE]
              ELSE [a EXCEPT !.time = time]
       ELSE IF time >= duration
              THEN [a EXCEPT !.time = time - duration * (time \div duration)]
              ELSE [a EXCEPT !.time = time]

\* The weight action._updateWeight(time) computes: this.weight (always 1)
\* times the interpolant's value, 0 for a disabled action.
EffectiveWeight(a) ==
  IF ~a.active \/ ~a.enabled THEN Zero
  ELSE IF ~a.fade.on THEN One
  ELSE InterpolantValue(a.fade)

\* Mutant of UpdateWeight: a fade that has run out is never stopped.
UpdateWeightKeepsFading(a) == a

\* action._updateWeight(time), its effect on the action: past times[1] the
\* fade is stopped, and an action faded out to 0 is disabled.  The fade has
\* already advanced to mixer.time.
UpdateWeight(a) ==
  IF a.enabled /\ a.fade.on /\ a.fade.elapsed > a.fade.dur
    THEN [a EXCEPT !.fade = NoFade,
                   !.enabled = (InterpolantValue(a.fade) # Zero)]
    ELSE a

\* action._update(time, deltaTime, ...): deltaTime is already scaled by
\* mixer.timeScale.
UpdateAction(a, name, deltaTime) ==
  LET moved == IF a.fade.on
                 THEN [a EXCEPT !.fade.elapsed =
                          Min(a.fade.elapsed + deltaTime, a.fade.dur + 1)]
                 ELSE a
  IN IF ~moved.enabled THEN UpdateWeight(moved)
     ELSE UpdateWeight(
            UpdateTime(moved, name, IF moved.paused THEN 0 ELSE deltaTime))

\* mixer.update(deltaTime): every activated action is updated.
MixerUpdate(acts, deltaTime, scale) ==
  [n \in Clips |->
     IF acts[n].active THEN UpdateAction(acts[n], n, deltaTime * scale)
     ELSE acts[n]]

\* ------------------------------------------------------- browser timers

\* A handle no pending timer and no field of the controller holds.
FreshHandle(s) ==
  CHOOSE h \in 1..(Cardinality(DOMAIN s.timers) + 2) :
    /\ h \notin DOMAIN s.timers
    /\ h # s.idleTimeout
    /\ \A g \in 1..(h - 1) : g \in DOMAIN s.timers \/ g = s.idleTimeout

\* setTimeout(callback, delay): the handle is stored by the caller.
SetTimeout(s, delay) ==
  LET h == FreshHandle(s)
  IN [s EXCEPT !.timers = [g \in DOMAIN s.timers \cup {h} |->
                             IF g = h THEN [delay |-> delay, stale |-> FALSE]
                             ELSE s.timers[g]],
               !.idleTimeout = h]

\* Mutant of ClearTimeout: the timer stays pending.
ClearTimeoutIgnored(s, h) == s

\* clearTimeout(handle): a handle that already fired is ignored.
ClearTimeout(s, h) ==
  [s EXCEPT !.timers = [g \in DOMAIN s.timers \ {h} |-> s.timers[g]]]

\* Every timer still pending was scheduled before the idle loop stopped.
MarkStale(s) ==
  [s EXCEPT !.timers = [g \in DOMAIN s.timers |->
                          [s.timers[g] EXCEPT !.stale = TRUE]]]

\* ------------------------------------------------- AnimationController

NoFadePair == [on |-> FALSE, from |-> NoAction, old |-> NoAction,
               to |-> NoAction,
               dur |-> 0, elapsed |-> 0]

RECURSIVE PlayAnimation(_, _, _, _)
RECURSIVE StopIdleLoop(_)

\* Mutant of PlayFound: a play of the current action only re-applies the
\* loop/clamp settings.
PlayFoundNoRestart(s, animationName, loop, fadeTime) ==
  LET old == s.currentAction
      newAction == [s.actions[animationName] EXCEPT
                      !.loop = loop, !.clampWhenFinished = ~loop]
      started == PlayAction(ResetAction(newAction))
  IN IF old # NoAction /\ old # animationName
       THEN [s EXCEPT
               !.currentActionName = animationName,
               !.actions = [s.actions EXCEPT
                              ![animationName] = FadeIn(started, fadeTime),
                              ![old] = FadeOut(s.actions[old], fadeTime)],
               !.xfade = [on |-> TRUE, from |-> old, old |-> old,
                          to |-> animationName,
                          dur |-> fadeTime, elapsed |-> 0],
               !.currentAction = animationName]
       ELSE [s EXCEPT
               !.currentActionName = animationName,
               !.actions = [s.actions EXCEPT
                              ![animationName] =
                                 IF old = animationName
                                   THEN PlayAction(newAction)
                                   ELSE started],
               !.xfade = NoFadePair,
               !.currentAction = animationName]

\* playAnimation, lines 65-79: the clip is in the cache.
PlayFound(s, animationName, loop, fadeTime) ==
  LET old == s.currentAction
      newAction == [s.actions[animationName] EXCEPT
                      !.loop = loop, !.clampWhenFinished = ~loop]
      started == PlayAction(ResetAction(newAction))
  IN IF old # NoAction /\ old # animationName
       THEN [s EXCEPT
               !.currentActionName = animationName,
               !.actions = [s.actions EXCEPT
                              ![animationName] = FadeIn(started, fadeTime),
                              ![old] = FadeOut(s.actions[old], fadeTime)],
               !.xfade = [on |-> TRUE, from |-> old, old |-> old,
                          to |-> animationName,
                          dur |-> fadeTime, elapsed |-> 0],
               !.currentAction = animationName]
       ELSE [s EXCEPT
               !.currentActionName = animationName,
               !.actions = [s.actions EXCEPT ![animationName] = started],
               !.xfade = NoFadePair,
               !.currentAction = animationName]

\* Mutant of PlayAnimation: the idle loop is left running whatever is played.
PlayAnimationKeepsIdle(s, animationName, loop, fadeTime) ==
  IF animationName \notin s.animations
    THEN s
    ELSE PlayFound(s, animationName, loop, fadeTime)

\* playAnimation(animationName, loop, fadeTime), lines 54-80.
PlayAnimation(s, animationName, loop, fadeTime) ==
  LET s1 == IF s.idleLoopActive /\ animationName \notin IdlePool
              THEN StopIdleLoop(s)
              ELSE s
  IN IF animationName \notin s1.animations
       THEN s1
       ELSE PlayFound(s1, animationName, loop, fadeTime)

\* stopIdleLoop(), lines 95-104.
StopIdleLoop(s) ==
  IF ~s.idleLoopActive THEN s
  ELSE LET s1 == [s EXCEPT !.idleLoopActive = FALSE, !.dwell = 0]
           s2 == IF s1.idleTimeout # NoTimer
                   THEN [ClearTimeout(s1, s1.idleTimeout)
                           EXCEPT !.idleTimeout = NoTimer]
                   ELSE s1
       IN PlayAnimation(MarkStale(s2), "idle", TRUE, FadeDefault)

\* Mutant of RandomInterval: the 5 s floor is left out.
RandomIntervalNoFloor(r) == (r * (DwellMax - DwellMin)) \div RandDen

\* Math.random() * (30000 - 5000) + 5000, with Math.random() = r / RandDen.
RandomInterval(r) == (r * (DwellMax - DwellMin)) \div RandDen + DwellMin

\* Mutant of PossibleAnims: the current clip is not excluded.
PossibleAnimsWithCurrent(s) ==
  SelectSeq(IdleAnimations, LAMBDA name : name \in s.animations)

\* this.idleAnimations.filter(name => name !== current && animations.has(name))
PossibleAnims(s) ==
  SelectSeq(IdleAnimations,
            LAMBDA name : name # s.currentActionName /\ name \in s.animations)

\* possibleAnims.length > 0 ? possibleAnims : idleAnimations.filter(has)
AnimPool(s) ==
  IF Len(PossibleAnims(s)) > 0 THEN PossibleAnims(s)
  ELSE SelectSeq(IdleAnimations, LAMBDA name : name \in s.animations)

\* animPool[Math.floor(Math.random() * animPool.length)], 1-based.
NextAnimName(s, r) == AnimPool(s)[((r * Len(AnimPool(s))) \div RandDen) + 1]

\* Whether runIdleLoop() goes on to select a clip.
Selects(s) == s.idleLoopActive /\ Len(AnimPool(s)) > 0

\* Mutant of RunIdleLoop: with no idle clip in the cache it returns and
\* leaves the loop active.
RunIdleLoopStaysActive(s, r1, r2) ==
  IF ~s.idleLoopActive THEN s
  ELSE IF Len(AnimPool(s)) = 0 THEN s
  ELSE LET s1 == PlayAnimation(s, NextAnimName(s, r1), TRUE, FadeDefault)
       IN SetTimeout([s1 EXCEPT !.dwell = 0], RandomInterval(r2))

\* runIdleLoop(), lines 110-137; r1 and r2 are the two Math.random() draws.
RunIdleLoop(s, r1, r2) ==
  IF ~s.idleLoopActive THEN s
  ELSE IF Len(AnimPool(s)) = 0 THEN StopIdleLoop(s)
  ELSE LET s1 == PlayAnimation(s, NextAnimName(s, r1), TRUE, FadeDefault)
       IN SetTimeout([s1 EXCEPT !.dwell = 0], RandomInterval(r2))

\* Mutant of StartIdleLoop: a start of the running loop runs it again.
StartIdleLoopAgain(s, r1, r2) ==
  RunIdleLoop([s EXCEPT !.idleLoopActive = TRUE], r1, r2)

\* startIdleLoop(), lines 85-90.
StartIdleLoop(s, r1, r2) ==
  IF s.idleLoopActive THEN s
  ELSE RunIdleLoop([s EXCEPT !.idleLoopActive = TRUE], r1, r2)

\* ------------------------------------------------------------- loading

\* What the FBX loader hands to loadMixamoAnimation for one url.
Assets == [fetched : BOOLEAN, hasClip : BOOLEAN, hasHips : BOOLEAN]

\* loadMixamoAnimation(url, vrm): "clip" when it resolves, "throw" when the
\* promise rejects (fetch error, no "mixamo.com" clip, no mixamorigHips).
LoadMixamoAnimation(asset) ==
  IF ~asset.fetched THEN "throw"
  ELSE IF ~asset.hasClip THEN "throw"
  ELSE IF ~asset.hasHips THEN "throw"
  ELSE "clip"

\* The body of the for loop of loadAllAnimations, lines 34-42, after the
\* await: the cache write in the try, or the catch.
LoadOne(s, name, asset) ==
  IF LoadMixamoAnimation(asset) = "clip"
    THEN [s EXCEPT !.animations = s.animations \cup {name}]
    ELSE [s EXCEPT !.failed = s.failed \cup {name}]

\* Mutant of LoadContinue: the first failing clip ends the loading.
LoadContinueAborts(s, asset) ==
  LET s1 == LoadOne(s, AnimationFiles[s.loadIdx], asset)
      next == s.loadIdx + 1
  IN IF LoadMixamoAnimation(asset) = "throw"
       THEN [s1 EXCEPT !.loadIdx = Len(AnimationFiles) + 1]
     ELSE IF next > Len(AnimationFiles)
       THEN [s1 EXCEPT !.loadIdx = next]
       ELSE [s1 EXCEPT !.loadIdx = next,
                       !.attempts[AnimationFiles[next]] = @ + 1]

\* loadAllAnimations, lines 33-45: the continuation after the await of the
\* clip at loadIdx, up to the next await (the next clip's
\* loadMixamoAnimation is called) or, after the last clip, the play of the
\* default idle.
LoadContinue(s, asset) ==
  LET s1 == LoadOne(s, AnimationFiles[s.loadIdx], asset)
      next == s.loadIdx + 1
  IN IF next > Len(AnimationFiles)
       THEN PlayAnimation([s1 EXCEPT !.loadIdx = next], "idle", TRUE, 0)
       ELSE [s1 EXCEPT !.loadIdx = next,
                       !.attempts[AnimationFiles[next]] = @ + 1]

\* ---------------------------------------------------------------- steps

State ==
  [animations |-> animations, currentAction |-> currentAction,
   currentActionName |-> currentActionName,
   idleLoopActive |-> idleLoopActive, idleTimeout |-> idleTimeout,
   timers |-> timers, actions |-> actions, loadIdx |-> loadIdx,
   attempts |-> attempts, failed |-> failed, xfade |-> xfade,
   dwell |-> dwell]

Becomes(result) ==
  LET s == result IN
  /\ animations' = s.animations
  /\ currentAction' = s.currentAction
  /\ currentActionName' = s.currentActionName
  /\ idleLoopActive' = s.idleLoopActive
  /\ idleTimeout' = s.idleTimeout
  /\ timers' = s.timers
  /\ actions' = s.actions
  /\ loadIdx' = s.loadIdx
  /\ attempts' = s.attempts
  /\ failed' = s.failed
  /\ xfade' = s.xfade
  /\ dwell' = s.dwell

\* The single run of loadAllAnimations the page makes is in loadIdx; no
\* second run is tracked.
NoRuns == [pc |-> << >>]

\* No call of loadMixamoAnimation is followed in detail.
NoRetarget == [pc |-> "none"]

\* The frame loop and the overlays are not followed.
NoPage == [pc |-> "none"]

\* The gaze overlay is not followed.
NoLookAt == [pc |-> "none"]

\* The expressions are not followed.
NoFace == [pc |-> "none"]

\* The other subsystems are not followed.
ElsewhereIdle ==
  /\ loadRuns = NoRuns
  /\ retarget = NoRetarget
  /\ page = NoPage
  /\ lookAt = NoLookAt
  /\ face = NoFace

\* State after the constructor, the GUI set-up and the call of
\* loadAllAnimations up to its first await (part_000, lines 115-136).
Constructed ==
  /\ animations = {}
  /\ currentAction = NoAction
  /\ currentActionName = NoAction
  /\ idleLoopActive = FALSE
  /\ idleTimeout = NoTimer
  /\ timers = << >>
  /\ actions = [n \in Clips |-> NewAction]
  /\ timeScale = 1
  /\ accuIndex = 0
  /\ loadIdx = 1
  /\ attempts = [n \in Clips |-> IF n = AnimationFiles[1] THEN 1 ELSE 0]
  /\ failed = {}
  /\ xfade = NoFadePair
  /\ dwell = 0

ControllerInit ==
  /\ Constructed
  /\ lastCall = [op |-> "new", name |-> NoAction, info |-> 0, fine |-> TRUE]

Init ==
  /\ ControllerInit
  /\ ElsewhereIdle

\* History: the clip that was current on entry to the call (line 54), kept
\* with the cross-fade the call started.  It differs from the clip faded out
\* at line 72 only when the call stopped the idle loop first (lines 56-58).
WithOldClip(s, name, entry) ==
  IF s.xfade.on /\ s.currentAction = name /\ entry # NoAction
    THEN [s EXCEPT !.xfade.old = entry]
    ELSE s

\* History: a step notes the operation that ran in lastCall.  A history
\* started coarse (fine = FALSE) keeps only whether the step was a frame or
\* slider move ("update") or a call into the controller ("call").
Record(entry) ==
  lastCall' = IF lastCall.fine
                THEN [op |-> entry.op, name |-> entry.name,
                      info |-> entry.info, fine |-> TRUE]
                ELSE [op |-> IF entry.op \in {"update", "timeScale"}
                               THEN "update" ELSE "call",
                      name |-> NoAction, info |-> 0, fine |-> FALSE]

\* A caller (the GUI buttons call it with loop = true and the default fade)
\* calls playAnimation.
Play(name, loop, fadeTime) ==
  /\ Becomes(WithOldClip(PlayAnimation(State, name, loop, fadeTime),
                         name, currentAction))
  /\ Record([op |-> "play", name |-> name,
             info |-> IF idleLoopActive THEN 1 ELSE 0])
  /\ UNCHANGED <<timeScale, accuIndex, elsewhere>>

\* The "Start Loop" button.
Start(r1, r2) ==
  /\ Becomes(StartIdleLoop(State, r1, r2))
  /\ Record(LET s1 == [State EXCEPT !.idleLoopActive = TRUE]
                 IN IF ~idleLoopActive /\ Selects(s1)
                      THEN [op |-> "start", name |-> NextAnimName(s1, r1),
                            info |-> 0]
                      ELSE [op |-> "start", name |-> NoAction, info |-> 0])
  /\ UNCHANGED <<timeScale, accuIndex, elsewhere>>

\* The "Stop Loop" button.
Stop ==
  /\ Becomes(StopIdleLoop(State))
  /\ Record([op |-> "stop", name |-> NoAction,
             info |-> IF idleTimeout \in DOMAIN timers THEN 1 ELSE 0])
  /\ UNCHANGED <<timeScale, accuIndex, elsewhere>>

\* The pending timer h that is due next fires: its delay passes on the wall
\* clock and its callback runs runIdleLoop.
TimerFire(h, r1, r2) ==
  /\ h \in DOMAIN timers
  /\ \A g \in DOMAIN timers : timers[h].delay <= timers[g].delay
  /\ LET d == timers[h].delay
         s1 == [State EXCEPT
                  !.timers = [g \in DOMAIN timers \ {h} |->
                                [timers[g] EXCEPT !.delay = @ - d]],
                  !.dwell = @ + d]
     IN /\ Becomes(RunIdleLoop(s1, r1, r2))
        /\ Record(IF Selects(s1)
                     THEN [op |-> "timer", name |-> NextAnimName(s1, r1),
                           info |-> s1.dwell]
                     ELSE [op |-> "timer", name |-> NoAction, info |-> -1])
  /\ UNCHANGED <<timeScale, accuIndex, elsewhere>>

\* animate(): animationController.update(deltaTime) -> mixer.update.
Update(deltaTime) ==
  /\ actions' = MixerUpdate(actions, deltaTime, timeScale)
  /\ accuIndex' = 1 - accuIndex
  /\ xfade' = IF xfade.on
                THEN [xfade EXCEPT !.elapsed =
                        Min(@ + deltaTime * timeScale, xfade.dur)]
                ELSE xfade
  /\ Record([op |-> "update", name |-> NoAction, info |-> 0])
  /\ UNCHANGED <<animations, currentAction, currentActionName,
                 idleLoopActive, idleTimeout, timers, timeScale, loadIdx,
                 attempts, failed, dwell, elsewhere>>

\* The "Time Scale" slider: mixer.timeScale = value.
SetTimeScale(value) ==
  /\ timeScale' = value
  /\ Record([op |-> "timeScale", name |-> NoAction, info |-> 0])
  /\ UNCHANGED <<animations, currentAction, currentActionName,
                 idleLoopActive, idleTimeout, timers, actions, accuIndex,
                 loadIdx, attempts, failed, xfade, dwell, elsewhere>>

\* The promise of the clip being loaded settles and loadAllAnimations goes on
\* to its next await, or to its end.
Load(asset) ==
  /\ loadIdx <= Len(AnimationFiles)
  /\ Becomes(LoadContinue(State, asset))
  /\ Record([op |-> "load", name |-> AnimationFiles[loadIdx], info |-> 0])
  /\ UNCHANGED <<timeScale, accuIndex, elsewhere>>

Next ==
  \/ \E call \in PlayCalls : Play(call[1], call[2], call[3])
  \/ \E r1, r2 \in 0..(RandDen - 1) : Start(r1, r2)
  \/ Stop
  \/ \E h \in DOMAIN timers, r1, r2 \in 0..(RandDen - 1) : TimerFire(h, r1, r2)
  \/ \E deltaTime \in DeltaTimes : Update(deltaTime)
  \/ \E value \in TimeScales : SetTimeScale(value)
  \/ \E asset \in Assets : Load(asset)

Spec == Init /\ [][Next]_vars

\* ---------------------------------------------------------------- claims

\* What a caller of the controller can observe of playback.
Playback == <<animations, currentAction, currentActionName, idleLoopActive,
              idleTimeout, timers, actions>>

Weight(name) == EffectiveWeight(actions[name])

\* C1 (as claimed): a play call whose clip name is absent from the clip cache
\* changes nothing: current clip and name, idle-cycling flag, dwell timer and
\* every clip's weight and time stay as they were.
C1_AbsentPlayChangesNothing ==
  [][(lastCall'.op = "play" /\ lastCall'.name \notin animations)
       => UNCHANGED Playback]_vars

\* C2 (as claimed): a play call for the clip that is already the active one
\* leaves that clip's playback time, weight and fade as they were.
C2_SameClipIsNoOp ==
  [][\A call \in PlayCalls :
       (call[1] = currentAction /\ lastCall'.op = "play"
          /\ Play(call[1], call[2], call[3]))
         => /\ actions'[call[1]].time = actions[call[1]].time
            /\ actions'[call[1]].fade = actions[call[1]].fade
            /\ Weight(call[1])' = Weight(call[1])]_vars

\* C2 (amended): a play call for the clip that is already the active one
\* restarts it: its time is 0, its fade is cancelled and its weight is 1, it is
\* running, its loop/clamp settings are the requested ones; no cross-fade is
\* started, the current clip stays and every other clip's action is untouched.
C2_SameClipRestarts ==
  [][\A call \in PlayCalls :
       (call[1] = currentAction /\ lastCall'.op = "play"
          /\ Play(call[1], call[2], call[3]))
         => /\ actions'[call[1]].time = 0
            /\ ~actions'[call[1]].fade.on
            /\ Weight(call[1])' = One
            /\ actions'[call[1]].enabled /\ ~actions'[call[1]].paused
            /\ actions'[call[1]].loop = call[2]
            /\ actions'[call[1]].clampWhenFinished = ~call[2]
            /\ ~xfade'.on
            /\ currentAction' = currentAction
            /\ \A other \in Clips \ {call[1]} :
                 actions'[other] = actions[other]]_vars

\* C2 witness: the play of the current clip has acted while another clip had
\* been played before (so the call was not the first play).
C2_Witness ==
  /\ lastCall.op = "play"
  /\ lastCall.name = currentAction
  /\ ~xfade.on
  /\ \E other \in Clips \ {currentAction} : actions[other].active

\* C3: after play is called for a clip different from the one playing at
\* the call, the new clip started at time 0, and while that cross-fade is the
\* current one the new clip's weight plus the old clip's weight is 1: the new
\* clip's weight is the mixer time advanced since the call over fadeDuration
\* (0 at the call, linear, 1 from fadeDuration on).
C3_CrossFadeConservation ==
  (xfade.on /\ xfade.old # xfade.to) =>
    /\ currentAction = xfade.to
    /\ FracAdd(Weight(xfade.to), Weight(xfade.old)) = One
    /\ Weight(xfade.to) = IF xfade.dur = 0 THEN One
                          ELSE Frac(xfade.elapsed, xfade.dur)
    /\ (xfade.dur > 0 /\ xfade.elapsed = 0) => actions[xfade.to].time = 0
    /\ (lastCall.op = "play" /\ lastCall.name = xfade.to)
         => actions[xfade.to].time = 0

\* The same conservation for the pair that lines 72-79 cross-fade: the new
\* clip and the clip the controller held as current when line 72 ran.
FadedPairConservation ==
  xfade.on =>
    /\ currentAction = xfade.to
    /\ FracAdd(Weight(xfade.to), Weight(xfade.from)) = One
    /\ Weight(xfade.to) = IF xfade.dur = 0 THEN One
                          ELSE Frac(xfade.elapsed, xfade.dur)
    /\ (xfade.dur > 0 /\ xfade.elapsed = 0) => actions[xfade.to].time = 0
    /\ (lastCall.op = "play" /\ lastCall.name = xfade.to)
         => actions[xfade.to].time = 0

\* The conservation of C3 for the calls the control panel and the idle loop
\* make, which all use the default fade duration.
DefaultFadeConservation ==
  (xfade.on /\ xfade.old # xfade.to /\ xfade.dur = FadeDefault) =>
    FracAdd(Weight(xfade.to), Weight(xfade.old)) = One

\* The clips played with loop = false that have reached their end.
Finished(name) ==
  /\ actions[name].active
  /\ ~actions[name].loop
  /\ actions[name].time = ClipDuration(name)

LiveInit ==
  /\ Constructed
  /\ lastCall = [op |-> "new", name |-> NoAction, info |-> 0, fine |-> FALSE]
  /\ ElsewhereIdle

LiveSpec ==
  /\ LiveInit
  /\ [][Next]_vars
  /\ WF_vars(\E deltaTime \in 1..MaxDelta : Update(deltaTime))

\* A fade is in progress on some action.
FadePending ==
  \E name \in Clips :
    actions[name].active /\ actions[name].enabled /\ actions[name].fade.on

\* The three states of the playback machine.
Idle == currentAction = NoAction
Playing == currentAction # NoAction /\ ~FadePending
CrossFading == currentAction # NoAction /\ FadePending

\* Playing, with the current clip as the only clip of non-zero weight.
Settled ==
  /\ Playing
  /\ Weight(currentAction) = One
  /\ \A name \in Clips \ {currentAction} : Weight(name) = Zero

\* The last thing that happened was a frame or a move of the time-scale
\* slider: no play call, start, stop, timer or load came since.
OnlyFrames == lastCall.op \in {"update", "timeScale"}

\* C5 as stated: the machine is in exactly one of the three states, a single
\* clip drives the pose in Playing and none in Idle, and a cross-fade that is
\* followed by frames only eventually completes, whatever the time scale.
C5_CrossFadeCompletes ==
  /\ [](Idle => \A name \in Clips : ~actions[name].active)
  /\ [](Playing => Settled)
  /\ (CrossFading /\ OnlyFrames) ~> (Settled \/ ~OnlyFrames)

\* C5 (amended): the same, with the completion promised only while the time
\* scale is positive; at time scale 0 the fade is frozen with the clips.
C5_CrossFadeCompletesWhenTimeRuns ==
  /\ [](Idle => \A name \in Clips : ~actions[name].active)
  /\ [](Playing => Settled)
  /\ (CrossFading /\ OnlyFrames) ~> (Settled \/ ~OnlyFrames \/ timeScale = 0)

\* C5 witness: frames have completed a cross-fade; the clip faded out is
\* still activated in the mixer, disabled at weight 0.
C5_Witness ==
  /\ Settled
  /\ lastCall.op = "update"
  /\ timeScale > 0
  /\ \E name \in Clips \ {currentAction} :
       actions[name].active /\ ~actions[name].enabled

\* C6: a play of a clip outside the idle pool made while the idle loop is
\* active leaves the loop inactive with no timer pending and, when the clip
\* is in the cache, that clip current; and while the loop is inactive only
\* a start makes it active and no timer callback selects a clip, so the
\* current clip changes by calls only (play, start, stop, the end of load).
C6_ManualPlayCancelsIdle ==
  [][/\ (lastCall'.op = "play" /\ lastCall'.info = 1
           /\ lastCall'.name \notin IdlePool)
          => /\ ~idleLoopActive'
             /\ DOMAIN timers' = {}
             /\ idleTimeout' = NoTimer
             /\ lastCall'.name \in animations
                  => /\ currentAction' = lastCall'.name
                     /\ currentActionName' = lastCall'.name
     /\ (~idleLoopActive /\ idleLoopActive') => lastCall'.op = "start"
     /\ (~idleLoopActive /\ lastCall'.op = "timer")
          => /\ lastCall'.name = NoAction
             /\ UNCHANGED <<currentAction, currentActionName, actions>>
             /\ DOMAIN timers' = {}
     /\ (~idleLoopActive /\ currentAction' # currentAction)
          => lastCall'.op \in {"play", "start", "load"}
    ]_vars

\* C6 witness: the clip outside the pool was played while the idle loop was
\* cycling and is now the current clip.
C6_Witness ==
  /\ lastCall.op = "play"
  /\ lastCall.info = 1
  /\ lastCall.name = "bow"
  /\ currentAction = "bow"
  /\ ~idleLoopActive
  /\ DOMAIN timers = {}

\* C7: no timer that was scheduled before a stop of the idle loop is still
\* pending, so no such callback can run; the only timer ever pending is the
\* one the controller holds in idleTimeout, and the loop is active then.
C7_NoStaleCallback ==
  \A h \in DOMAIN timers :
    /\ ~timers[h].stale
    /\ h = idleTimeout
    /\ idleLoopActive

\* C7 witness: the idle loop was stopped while its dwell timer was pending.
C7_Witness ==
  /\ lastCall.op = "stop"
  /\ lastCall.info = 1
  /\ ~idleLoopActive
  /\ DOMAIN timers = {}

\* The idle-pool clips present in the cache.
Available == IdlePool \cap animations

\* C8: the clip the idle cycle selects (at a start or at a timer callback)
\* is an idle-pool clip present in the cache and becomes the current clip;
\* it differs from the clip current before the selection when at least two
\* pool clips are in the cache, and equals it only when it is the only one.
C8_IdleSelection ==
  [][(lastCall'.op \in {"start", "timer"} /\ lastCall'.name # NoAction)
       => /\ lastCall'.name \in Available
          /\ currentAction' = lastCall'.name
          /\ currentActionName' = lastCall'.name
          /\ Cardinality(Available) >= 2
               => lastCall'.name # currentActionName
          /\ lastCall'.name = currentActionName
               => Available = {lastCall'.name}
    ]_vars

\* C8 witness: a timer callback selected a clip with two pool clips cached.
C8_Witness ==
  /\ lastCall.op = "timer"
  /\ lastCall.name # NoAction
  /\ currentAction = lastCall.name
  /\ Cardinality(Available) >= 2

SettledLoads == {AnimationFiles[i] : i \in 1..(loadIdx - 1)}

\* C10: a clip whose load fails is never in the cache, no clip is attempted
\* twice, the clips settled so far are split into the cache and the failed
\* ones, and when loading completes every configured clip was attempted once
\* and the cache holds exactly the clips whose load succeeded.
C10_LoadFailureIsolated ==
  /\ animations \cap failed = {}
  /\ animations \cup failed = SettledLoads
  /\ \A name \in Clips : attempts[name] <= 1
  /\ loadIdx > Len(AnimationFiles)
       => /\ animations = Clips \ failed
          /\ \A name \in Clips : attempts[name] = 1

\* C10 witness: loading completed with the first two clips failed and the
\* last one loaded.
C10_Witness ==
  /\ loadIdx > Len(AnimationFiles)
  /\ failed = {"idle", "idle_happy"}
  /\ animations = {"bow"}
  /\ attempts["bow"] = 1

\* ------------------------------------------- overlapping load runs (C11)

\* Two calls of loadAllAnimations() on the same controller.
Runs == {1, 2}

LoadDone == Len(AnimationFiles) + 1

\* Neither run has been called: pc 0 is "not called", 1..Len the index of
\* the clip whose loadMixamoAnimation promise is awaited, LoadDone the end.
\* cache[name] is the run whose retargeted clip this.animations holds under
\* the name (0: none), calls counts the loadMixamoAnimation calls, log is
\* the history of cache writes, playing the run whose "idle" clip the last
\* playAnimation("idle", true, 0) found.
RunsInit ==
  [pc |-> [r \in Runs |-> 0],
   calls |-> [r \in Runs |-> [name \in Clips |-> 0]],
   cache |-> [name \in Clips |-> 0],
   log |-> << >>,
   playing |-> 0]

\* Mutant of RunStart: a run called while another is loading returns at
\* once (an isLoading guard).
RunStartDeduplicated(r) ==
  /\ loadRuns.pc[r] = 0
  /\ loadRuns' =
       IF \E other \in Runs : loadRuns.pc[other] \in 1..Len(AnimationFiles)
         THEN [loadRuns EXCEPT !.pc[r] = LoadDone]
         ELSE [loadRuns EXCEPT !.pc[r] = 1,
                               !.calls[r][AnimationFiles[1]] = @ + 1]
  /\ UNCHANGED <<controllerVars, retarget, page, lookAt, face>>

\* loadAllAnimations() is called: it runs to its first await, line 35.
RunStart(r) ==
  /\ loadRuns.pc[r] = 0
  /\ loadRuns' = [loadRuns EXCEPT !.pc[r] = 1,
                                  !.calls[r][AnimationFiles[1]] = @ + 1]
  /\ UNCHANGED <<controllerVars, retarget, page, lookAt, face>>

\* The promise run r awaits settles: lines 36-38 write the cache, or the
\* catch of lines 40-42 logs; then the next clip's load is called, or after
\* the last clip line 45 plays "idle".
RunSettle(r, asset) ==
  /\ loadRuns.pc[r] \in 1..Len(AnimationFiles)
  /\ LET name == AnimationFiles[loadRuns.pc[r]]
         next == loadRuns.pc[r] + 1
         ok == LoadMixamoAnimation(asset) = "clip"
         written == IF ok THEN [loadRuns.cache EXCEPT ![name] = r]
                    ELSE loadRuns.cache
     IN loadRuns' =
          [loadRuns EXCEPT
             !.pc[r] = next,
             !.cache = written,
             !.log = IF ok THEN Append(@, <<r, name>>) ELSE @,
             !.calls[r] = IF next <= Len(AnimationFiles)
                            THEN [@ EXCEPT ![AnimationFiles[next]] = @ + 1]
                            ELSE @,
             !.playing = IF next > Len(AnimationFiles) /\ written["idle"] # 0
                           THEN written["idle"] ELSE @]
  /\ UNCHANGED <<controllerVars, retarget, page, lookAt, face>>

LoadRunsInit ==
  /\ ControllerInit
  /\ loadRuns = RunsInit
  /\ retarget = NoRetarget
  /\ page = NoPage
  /\ lookAt = NoLookAt
  /\ face = NoFace

LoadRunsNext ==
  \/ \E r \in Runs : RunStart(r)
  \/ \E r \in Runs, asset \in Assets : RunSettle(r, asset)

LoadRunsSpec == LoadRunsInit /\ [][LoadRunsNext]_vars

\* The run that wrote the name last according to the log, 0 if none did.
RECURSIVE LastWriter(_, _)
LastWriter(log, name) ==
  IF log = << >> THEN 0
  ELSE IF log[Len(log)][2] = name THEN log[Len(log)][1]
  ELSE LastWriter(SubSeq(log, 1, Len(log) - 1), name)

\* C11: a run that was called loads every clip itself, once, whatever the
\* other run does (no run is skipped, blocked or made to wait); every
\* successful load writes the cache, and the cache entry of a name is always
\* the clip of the run that wrote it last.
C11_LastCommitWins ==
  /\ \A name \in Clips : loadRuns.cache[name] = LastWriter(loadRuns.log, name)
  /\ \A r \in Runs, i \in 1..Len(AnimationFiles) :
       loadRuns.calls[r][AnimationFiles[i]] =
         IF loadRuns.pc[r] >= i THEN 1 ELSE 0
  /\ \A r \in Runs :
       Cardinality({i \in 1..Len(loadRuns.log) : loadRuns.log[i][1] = r})
         <= Cardinality({i \in 1..Len(AnimationFiles) : i < loadRuns.pc[r]})

\* C11 witness: both runs are finished, both retargeted "idle", run 2
\* committed it first and run 1 last, and the cache holds run 1's clip.
C11_Witness ==
  /\ \A r \in Runs : loadRuns.pc[r] = LoadDone
  /\ \E i, j \in 1..Len(loadRuns.log) :
       /\ i < j
       /\ loadRuns.log[i] = <<2, "idle">>
       /\ loadRuns.log[j] = <<1, "idle">>
  /\ loadRuns.cache["idle"] = 1

\* ------------------------------------------------------- retargeting
\* loadMixamoAnimation (part_002, lines 12-122) in detail: the callback of
\* loader.loadAsync, applied to one loaded asset and one VRM.

MaxTracks == 2

\* Quaternions are <<x, y, z, w>>, the order of Quaternion.toArray; the
\* samples and rest rotations are drawn from the quaternion group
\* {+-1, +-i, +-j, +-k}, which is closed under the product and not
\* commutative.
QIdentity == <<0, 0, 0, 1>>

QI == <<1, 0, 0, 0>>

QJ == <<0, 1, 0, 0>>

QK == <<0, 0, 1, 0>>

\* Quaternion.multiplyQuaternions(a, b)
QMul(a, b) ==
  << a[1] * b[4] + a[4] * b[1] + a[2] * b[3] - a[3] * b[2],
     a[2] * b[4] + a[4] * b[2] + a[3] * b[1] - a[1] * b[3],
     a[3] * b[4] + a[4] * b[3] + a[1] * b[2] - a[2] * b[1],
     a[4] * b[4] - a[1] * b[1] - a[2] * b[2] - a[3] * b[3] >>

\* Quaternion.invert() of a unit quaternion: the conjugate
QInvert(q) == << -q[1], -q[2], -q[3], q[4] >>

QNeg(q) == << -q[1], -q[2], -q[3], -q[4] >>

\* Object3D.getWorldQuaternion decomposes the world matrix, and
\* setFromRotationMatrix returns the representative whose dominant
\* component is positive: of q and -q the one with the positive entry.
Canonical(q) == IF q[1] + q[2] + q[3] + q[4] < 0 THEN QNeg(q) ELSE q

\* The source skeleton: each bone's parent; the asset itself is the root.
SourceRoot == "Armature"

SourceBones == {"mixamorigHips", "mixamorigSpine", "mixamorigHeadTop_End",
                "mixamorigLeftToeBase"}

SourceParent ==
  [b \in SourceBones |->
     CASE b = "mixamorigHips" -> SourceRoot
       [] b = "mixamorigSpine" -> "mixamorigHips"
       [] b = "mixamorigHeadTop_End" -> "mixamorigSpine"
       [] OTHER -> "mixamorigHips"]

\* The rest poses an asset may have: the local rest rotation of each node.
IdentityPose == [b \in SourceBones \cup {SourceRoot} |-> QIdentity]

RestPoses ==
  { IdentityPose,
    [IdentityPose EXCEPT !["mixamorigHips"] = QI],
    [IdentityPose EXCEPT ![SourceRoot] = QK, !["mixamorigHips"] = QI,
                         !["mixamorigSpine"] = QJ] }

\* node.getWorldQuaternion() in the rest pose
RECURSIVE WorldProduct(_, _)
WorldProduct(rest, node) ==
  IF node = SourceRoot THEN rest[node]
  ELSE QMul(WorldProduct(rest, SourceParent[node]), rest[node])

GetWorldQuaternion(rest, node) == Canonical(WorldProduct(rest, node))

\* mixamoVRMRigMap: the bones it has an entry for
mixamoVRMRigMap ==
  [b \in {"mixamorigHips", "mixamorigSpine", "mixamorigLeftToeBase"} |->
     CASE b = "mixamorigHips" -> "hips"
       [] b = "mixamorigSpine" -> "spine"
       [] OTHER -> "leftToes"]

\* vrm.humanoid.getNormalizedBoneNode(bone)?.name, or "undefined"; leftToes
\* is an optional bone of the humanoid.
NormalizedNodeName(vrm, bone) ==
  CASE bone = "hips" -> "Normalized_hips"
    [] bone = "spine" -> "Normalized_spine"
    [] bone = "leftToes" /\ vrm.hasToes -> "Normalized_leftToes"
    [] OTHER -> "undefined"

\* lines 62-65: the target node a source track name resolves to
VrmNodeName(vrm, mixamoRigName) ==
  IF mixamoRigName \in DOMAIN mixamoVRMRigMap
    THEN NormalizedNodeName(vrm, mixamoVRMRigMap[mixamoRigName])
    ELSE "undefined"

\* The tracks a loaded clip is made of.  FBXLoader makes a
\* VectorKeyframeTrack for a position and for a scale curve, a
\* QuaternionKeyframeTrack for a rotation curve and a NumberKeyframeTrack
\* for a morph curve.
Track(bone, property, type, times, values) ==
  [bone |-> bone, property |-> property, type |-> type,
   times |-> times, values |-> values]

TrackPool ==
  { Track("mixamorigHips", "quaternion", "Quaternion", <<0, 1>>,
          <<1, 0, 0, 0, 0, 1, 0, 0>>),
    Track("mixamorigHips", "position", "Vector", <<0, 1>>,
          <<1, 2, 3, -2, -1, 4>>),
    Track("mixamorigSpine", "quaternion", "Quaternion", <<0>>,
          <<0, 0, 1, 0>>),
    Track("mixamorigHeadTop_End", "quaternion", "Quaternion", <<0>>,
          <<0, 0, 0, 1>>),
    Track("mixamorigLeftToeBase", "quaternion", "Quaternion", <<0, 2>>,
          <<0, 0, 0, -1, -1, 0, 0, 0>>),
    Track("mixamorigHips", "scale", "Vector", <<0>>, <<1, 1, 1>>),
    Track("mixamorigSpine", "morphTargetInfluences", "Number", <<0>>,
          <<1>>) }

RECURSIVE SeqsUpTo(_, _)
SeqsUpTo(S, n) ==
  IF n = 0 THEN { << >> }
  ELSE LET shorter == SeqsUpTo(S, n - 1)
       IN shorter \cup { Append(s, x) : s \in shorter, x \in S }

Heights == {1, 2, 3}

Durations == {1, 2}

\* The assets a load may yield with a clip named "mixamo.com" and a hips
\* node, and the VRMs a clip is retargeted to.
GoodAssets ==
  [hasClip : {TRUE}, hasHips : {TRUE}, duration : Durations,
   tracks : SeqsUpTo(TrackPool, MaxTracks), rest : RestPoses,
   hipsY : Heights]

\* The assets on which the callback throws (lines 38-45, line 55).
BadAssets ==
  [hasClip : BOOLEAN, hasHips : BOOLEAN, duration : {1},
   tracks : { << >> }, rest : {IdentityPose}, hipsY : {1}]
    \ [hasClip : {TRUE}, hasHips : {TRUE}, duration : {1},
       tracks : { << >> }, rest : {IdentityPose}, hipsY : {1}]

\* metaVersion === "0" is the legacy (VRM 0.x) format.
Vrms == [legacy : BOOLEAN, hasToes : BOOLEAN, hipsY : Heights]

\* lines 55-57
hipsPositionScale(asset, vrm) == Frac(vrm.hipsY, asset.hipsY)

\* Mutant of RetargetRotation: the two rest rotations on the wrong sides.
RetargetRotationSwapped(parentRestWorldRotation, q, restRotationInverse) ==
  QMul(QMul(restRotationInverse, q), parentRestWorldRotation)

\* lines 83-85: _quatA.premultiply(parentRestWorldRotation)
\*                    .multiply(restRotationInverse)
RetargetRotation(parentRestWorldRotation, q, restRotationInverse) ==
  QMul(QMul(parentRestWorldRotation, q), restRotationInverse)

\* lines 77-92: every group of four values is retargeted and written back
\* into track.values.
RetargetValues(values, parentRestWorldRotation, restRotationInverse) ==
  [k \in 1..Len(values) |->
     LET i == ((k - 1) \div 4) * 4
         flatQuaternion == << values[i + 1], values[i + 2],
                              values[i + 3], values[i + 4] >>
     IN RetargetRotation(parentRestWorldRotation, flatQuaternion,
                         restRotationInverse)[((k - 1) % 4) + 1]]

\* Mutant of QuaternionValue: the flip hits the odd indices (y and w).
QuaternionValueOdd(v, i, legacy) ==
  IF legacy /\ i % 2 = 1 THEN -v ELSE v

\* lines 98-100: the map over the values, i the index from 0
QuaternionValue(v, i, legacy) ==
  IF legacy /\ i % 2 = 0 THEN -v ELSE v

\* Mutant of VectorValue: the flip hits every component.
VectorValueAll(v, i, legacy, scale) ==
  Frac((IF legacy THEN -v ELSE v) * scale[1], scale[2])

\* lines 104-108: the map over the values, i the index from 0
VectorValue(v, i, legacy, scale) ==
  Frac((IF legacy /\ i % 3 # 1 THEN -v ELSE v) * scale[1], scale[2])

\* lines 61-117: the body of the forEach for one track: the tracks pushed
\* (none or one) and the values the source track holds afterwards.
RetargetTrack(track, asset, vrm) ==
  LET vrmNodeName == VrmNodeName(vrm, track.bone)
      restRotationInverse ==
        QInvert(GetWorldQuaternion(asset.rest, track.bone))
      parentRestWorldRotation ==
        GetWorldQuaternion(asset.rest, SourceParent[track.bone])
      retargeted ==
        RetargetValues(track.values, parentRestWorldRotation,
                       restRotationInverse)
      name == <<vrmNodeName, track.property>>
  IN CASE vrmNodeName # "undefined" /\ track.type = "Quaternion" ->
            [pushed |->
               << [name |-> name, type |-> "Quaternion",
                   times |-> track.times,
                   values |-> [k \in 1..Len(retargeted) |->
                                 QuaternionValue(retargeted[k], k - 1,
                                                 vrm.legacy)]] >>,
             source |-> [track EXCEPT !.values = retargeted]]
       [] vrmNodeName # "undefined" /\ track.type = "Vector" ->
            [pushed |->
               << [name |-> name, type |-> "Vector",
                   times |-> track.times,
                   values |-> [k \in 1..Len(track.values) |->
                                 VectorValue(track.values[k], k - 1,
                                             vrm.legacy,
                                             hipsPositionScale(asset, vrm))]] >>,
             source |-> track]
       [] OTHER -> [pushed |-> << >>, source |-> track]

RECURSIVE RetargetTracks(_, _, _)
RetargetTracks(tracks, asset, vrm) ==
  IF tracks = << >> THEN << >>
  ELSE RetargetTrack(Head(tracks), asset, vrm).pushed
         \o RetargetTracks(Tail(tracks), asset, vrm)

\* lines 14-121: the callback.  It throws when no clip is named
\* "mixamo.com" (line 44) or no node is named "mixamorigHips" (line 55).
RetargetClip(asset, vrm) ==
  IF ~asset.hasClip \/ ~asset.hasHips
    THEN [ok |-> FALSE]
    ELSE [ok |-> TRUE,
          clip |-> [name |-> "vrmAnimation", duration |-> asset.duration,
                    tracks |-> RetargetTracks(asset.tracks, asset, vrm)],
          source |-> [k \in 1..Len(asset.tracks) |->
                        RetargetTrack(asset.tracks[k], asset, vrm).source]]

\* The FBX file has loaded and the callback runs.
Retarget ==
  /\ retarget.pc = "loaded"
  /\ retarget' = [pc |-> "settled", asset |-> retarget.asset,
                  vrm |-> retarget.vrm,
                  result |-> RetargetClip(retarget.asset, retarget.vrm)]
  /\ UNCHANGED <<controllerVars, loadRuns, page, lookAt, face>>

RetargetInit ==
  /\ ControllerInit
  /\ loadRuns = NoRuns
  /\ page = NoPage
  /\ lookAt = NoLookAt
  /\ face = NoFace
  /\ \E asset \in GoodAssets \cup BadAssets, vrm \in Vrms :
       retarget = [pc |-> "loaded", asset |-> asset, vrm |-> vrm]

RetargetNext == Retarget

RetargetSpec == RetargetInit /\ [][RetargetNext]_vars

\* ------------------------------------------------------------- C12

\* The source track's bone has a RigMap entry that resolves to a bone of
\* the target skeleton.
Resolves(track, vrm) == VrmNodeName(vrm, track.bone) # "undefined"

\* The name and time samples of the retargeted track of each source track
\* that satisfies keep, in the order of the source clip.
RECURSIVE Kept(_, _, _)
Kept(tracks, vrm, keep) ==
  IF tracks = << >> THEN << >>
  ELSE LET track == Head(tracks)
           rest == Kept(Tail(tracks), vrm, keep)
       IN IF Resolves(track, vrm) /\ track.property \in keep
            THEN << [name |-> <<VrmNodeName(vrm, track.bone), track.property>>,
                     times |-> track.times] >> \o rest
            ELSE rest

NamesAndTimes(tracks) ==
  [k \in 1..Len(tracks) |-> [name |-> tracks[k].name,
                             times |-> tracks[k].times]]

Settled12 ==
  /\ retarget.pc = "settled"
  /\ retarget.asset.hasClip
  /\ retarget.asset.hasHips

\* C12: for every source clip the retargeted clip is returned with the
\* source duration and exactly one track per source rotation or position
\* track whose bone resolves to a target bone, named after that bone and
\* with the source times; every other source track is omitted.
C12_RetargetedTracks ==
  Settled12 =>
    /\ retarget.result.ok
    /\ retarget.result.clip.duration = retarget.asset.duration
    /\ NamesAndTimes(retarget.result.clip.tracks)
         = Kept(retarget.asset.tracks, retarget.vrm,
                {"quaternion", "position"})

\* What the code does keep: every quaternion track and every vector track
\* of a resolving bone, the scale tracks among them.
RetargetedTracksByType ==
  Settled12 =>
    /\ retarget.result.ok
    /\ retarget.result.clip.duration = retarget.asset.duration
    /\ NamesAndTimes(retarget.result.clip.tracks)
         = Kept(retarget.asset.tracks, retarget.vrm,
                {"quaternion", "position", "scale"})

\* A clip with a scale track of the hips has been retargeted.
ScaleTrackRetargeted ==
  /\ Settled12
  /\ \E k \in 1..Len(retarget.asset.tracks) :
       /\ retarget.asset.tracks[k].property = "scale"
       /\ Resolves(retarget.asset.tracks[k], retarget.vrm)
  /\ \E k \in 1..Len(retarget.result.clip.tracks) :
       retarget.result.clip.tracks[k].name = <<"Normalized_hips", "scale">>

\* ------------------------------------------------------------- C13

\* The source tracks a retargeted track is pushed for, in order: the k-th
\* of them is the source of the k-th track of the result.
RECURSIVE KeptSources(_, _)
KeptSources(tracks, vrm) ==
  IF tracks = << >> THEN << >>
  ELSE LET track == Head(tracks)
           rest == KeptSources(Tail(tracks), vrm)
       IN IF Resolves(track, vrm) /\ track.type \in {"Quaternion", "Vector"}
            THEN <<track>> \o rest
            ELSE rest

\* The pairs <<source track, retargeted track>> of a settled call
RetargetedPairs ==
  IF Settled12
    THEN LET sources == KeptSources(retarget.asset.tracks, retarget.vrm)
         IN { <<sources[k], retarget.result.clip.tracks[k]>> :
                k \in 1..Len(sources) }
    ELSE {}

\* the samples of a flat value array of the given stride, counted from 0
Samples(values, stride) == 0..((Len(values) \div stride) - 1)

\* C13: every Y sample of a retargeted position track is the source Y
\* times targetHeight / sourceHeight, for a legacy VRM as for a current
\* one.
C13_HipScale ==
  \A pair \in RetargetedPairs :
    pair[1].property = "position" =>
      /\ Len(pair[2].values) = Len(pair[1].values)
      /\ \A s \in Samples(pair[1].values, 3) :
           LET y == pair[1].values[3 * s + 2]
               out == pair[2].values[3 * s + 2]
           IN /\ out[2] > 0
              /\ out[1] * retarget.asset.hipsY
                   = y * retarget.vrm.hipsY * out[2]

\* A position track with a Y sample other than 0 has been retargeted to a
\* legacy VRM whose hips are higher than the source's.
C13_Witness ==
  /\ retarget.pc = "settled"
  /\ retarget.vrm.legacy
  /\ retarget.vrm.hipsY > retarget.asset.hipsY
  /\ retarget.asset.hipsY > 1
  /\ \E pair \in RetargetedPairs :
       /\ pair[1].property = "position"
       /\ pair[1].values[2] # 0
       /\ pair[2].values[2] = <<3, 1>>

\* ------------------------------------------------------------- C14

\* The flat index (from 0) is an X or a Z component of its sample.
IsXZ(type, i) == IF type = "Quaternion" THEN i % 4 \in {0, 2}
                 ELSE i % 3 \in {0, 2}

\* The negative of a quaternion component (an integer) or of a position
\* component (a fraction)
Negative(type, v) == IF type = "Quaternion" THEN -v ELSE <<-v[1], v[2]>>

\* The same asset retargeted to the same VRM declaring the current format
CurrentFormatResult ==
  RetargetClip(retarget.asset, [retarget.vrm EXCEPT !.legacy = FALSE])

\* The indices of the source tracks a retargeted track is pushed for
KeptIndices ==
  LET tracks == retarget.asset.tracks
      kept == { k \in 1..Len(tracks) :
                  /\ Resolves(tracks[k], retarget.vrm)
                  /\ tracks[k].type \in {"Quaternion", "Vector"} }
  IN [n \in 1..Cardinality(kept) |->
        CHOOSE k \in kept : Cardinality({j \in kept : j < k}) = n - 1]

\* C14: for a legacy VRM exactly the X and Z components of every
\* quaternion sample and of every position sample are negated; for a
\* current-format VRM no component is; negating twice gives the original.
C14_LegacyNegation ==
  Settled12 =>
    LET out == retarget.result.clip.tracks
        plain == CurrentFormatResult.clip.tracks
        legacy == retarget.vrm.legacy
    IN \A n \in 1..Len(out) :
         LET src == retarget.asset.tracks[KeptIndices[n]]
             written == retarget.result.source[KeptIndices[n]]
         IN \A k \in 1..Len(out[n].values) :
              LET v == out[n].values[k]
                  type == out[n].type
              IN /\ legacy /\ IsXZ(type, k - 1)
                      => v = Negative(type, plain[n].values[k])
                 /\ ~(legacy /\ IsXZ(type, k - 1))
                      => v = plain[n].values[k]
                 /\ ~legacy /\ type = "Quaternion" => v = written.values[k]
                 /\ ~legacy /\ type = "Vector" =>
                      v[1] * retarget.asset.hipsY
                        = src.values[k] * retarget.vrm.hipsY * v[2]
                 /\ type = "Quaternion" =>
                      QuaternionValue(QuaternionValue(v, k - 1, TRUE),
                                      k - 1, TRUE) = v
                 /\ type = "Vector" =>
                      VectorValue(VectorValue(src.values[k], k - 1, TRUE,
                                              One)[1], k - 1, TRUE, One)
                        = <<src.values[k], 1>>

\* A rotation track and a position track have been retargeted to a legacy
\* VRM, the rotation track with an X and a W that are not 0.
C14_Witness ==
  /\ Settled12
  /\ retarget.vrm.legacy
  /\ \E a, b \in 1..Len(retarget.result.clip.tracks) :
       LET q == retarget.result.clip.tracks[a]
           p == retarget.result.clip.tracks[b]
       IN /\ q.type = "Quaternion"
          /\ \E k \in 1..Len(q.values) : (k - 1) % 4 = 0 /\ q.values[k] # 0
          /\ \E k \in 1..Len(q.values) : (k - 1) % 4 = 3 /\ q.values[k] # 0
          /\ p.name[2] = "position"
          /\ p.values[1][1] < 0
          /\ p.values[2][1] > 0

\* ------------------------------------------------------------- C15

\* sample s (from 0) of a flat quaternion value array
QuaternionAt(values, s) ==
  << values[4 * s + 1], values[4 * s + 2], values[4 * s + 3],
     values[4 * s + 4] >>

\* The source skeleton rests in the pose of the normalized target bones
\* (no rotation), the hips are equally high and the VRM is current-format.
IdentityCase ==
  /\ retarget.asset.rest = IdentityPose
  /\ retarget.asset.hipsY = retarget.vrm.hipsY
  /\ ~retarget.vrm.legacy

\* C15: in the identity case every rotation sample is returned unchanged
\* and every position sample scaled by 1; in general the retargeted sample
\* Q of a rotation sample R satisfies Q * restWorld(bone) =
\* restWorld(parent) * R, that is Q = parentRestWorld * R * restInverse.
C15_RestPoseTransform ==
  Settled12 =>
    \A n \in 1..Len(retarget.result.clip.tracks) :
      LET src == retarget.asset.tracks[KeptIndices[n]]
          out == retarget.result.clip.tracks[n]
          plain == CurrentFormatResult.clip.tracks[n]
          restWorld == GetWorldQuaternion(retarget.asset.rest, src.bone)
          parentRestWorld ==
            GetWorldQuaternion(retarget.asset.rest, SourceParent[src.bone])
      IN /\ IdentityCase /\ out.type = "Quaternion"
              => out.values = src.values
         /\ IdentityCase /\ out.type = "Vector"
              => out.values = [k \in 1..Len(src.values) |->
                                 <<src.values[k], 1>>]
         /\ out.type = "Quaternion" =>
              /\ Len(plain.values) = Len(src.values)
              /\ \A s \in Samples(src.values, 4) :
                   QMul(QuaternionAt(plain.values, s), restWorld)
                     = QMul(parentRestWorld, QuaternionAt(src.values, s))

\* A rotation track of the hips has been retargeted from a skeleton whose
\* root and hips are rotated at rest, and its first sample has changed.
C15_Witness ==
  /\ Settled12
  /\ retarget.asset.rest[SourceRoot] = QK
  /\ retarget.asset.rest["mixamorigHips"] = QI
  /\ ~retarget.vrm.legacy
  /\ \E n \in 1..Len(retarget.result.clip.tracks) :
       /\ retarget.result.clip.tracks[n].name
            = <<"Normalized_hips", "quaternion">>
       /\ QuaternionAt(retarget.result.clip.tracks[n].values, 0)
            = QIdentity
       /\ QuaternionAt(retarget.asset.tracks[KeptIndices[n]].values, 0) = QI

\* ------------------------------------------------- the page's frame loop
\* main.js (part_000): loadVRM's callback, the 100 ms timer that enables
\* the ArmSpaceController, and animate(); the ArmSpaceController of
\* AnimationController.js, lines 235-280.  Angles are in 1/10000 rad and
\* arm-space offsets in 1/100, the step of the GUI slider.

MaxFrames == 3

\* this.armSpaceOffset * 0.15, in 1/10000 rad per 1/100 of offset
Attenuation == 15

\* params.armSpace = 1.5
DefaultArmSpace == 150

\* values of the Arm Space slider: -1.0, 1.5, 2.0
ArmSpaces == {-100, 150, 200}

\* The rest pose, and two poses the mixer computes from a clip.
RestPose == 0

NextPose(pose) == IF pose = 1 THEN 2 ELSE 1

\* A bone's quaternion: the pose the mixer wrote last, multiplied on the
\* right by a rotation of extra about Z.  Rotations about one axis compose
\* by adding their angles.
Bone(pose, extra) == [pose |-> pose, extra |-> extra]

\* Mutant of StepAfter: the arm-space overlay is called first.
StepAfterOverlayFirst(step) ==
  CASE step = "begin" -> "armSpace"
    [] step = "armSpace" -> "playback"
    [] step = "playback" -> "expression"
    [] step = "expression" -> "lookAt"
    [] step = "lookAt" -> "finalize"
    [] step = "finalize" -> "render"
    [] OTHER -> "between"

\* animate(), lines 156-172: the call that follows each call
StepAfter(step) ==
  CASE step = "begin" -> "playback"
    [] step = "playback" -> "expression"
    [] step = "expression" -> "armSpace"
    [] step = "armSpace" -> "lookAt"
    [] step = "lookAt" -> "finalize"
    [] step = "finalize" -> "render"
    [] OTHER -> "between"

\* The page after main.js has run: loadVRM is waiting for the model and
\* the first animation frame is requested.
PageStart ==
  [pc |-> "between", vrm |-> FALSE, arms |-> FALSE, load |-> "none",
   playing |-> FALSE, timer |-> FALSE, enabled |-> FALSE,
   armSpaceOffset |-> DefaultArmSpace, pose |-> RestPose,
   left |-> Bone(RestPose, 0), right |-> Bone(RestPose, 0),
   steps |-> << >>, written |-> FALSE, overlaid |-> FALSE,
   posed |-> FALSE, frames |-> 0, applied |-> << >>]

Others == <<controllerVars, loadRuns, retarget, lookAt, face>>

\* A step of animate() is logged when its condition lets it run.
Logged(step, ran) == IF ran THEN Append(page.steps, step) ELSE page.steps

\* The model has loaded: lines 93-136 set currentVrm, construct the
\* controllers (the ArmSpaceController disabled) and call
\* loadAllAnimations.  arms: the humanoid has both upper-arm bones.
VrmLoaded(arms) ==
  /\ page.pc = "between"
  /\ ~page.vrm
  /\ page' = [page EXCEPT !.vrm = TRUE, !.arms = arms, !.load = "pending",
                          !.enabled = FALSE,
                          !.armSpaceOffset = DefaultArmSpace]
  /\ UNCHANGED Others

\* loadAllAnimations resolves: its last line has played "idle" when that
\* clip loaded; then lines 138-141 start the 100 ms timer.
LoadAllSettled(idleLoaded) ==
  /\ page.pc = "between"
  /\ page.load = "pending"
  /\ page' = [page EXCEPT !.load = "done",
                          !.playing = @ \/ idleLoaded,
                          !.timer = TRUE]
  /\ UNCHANGED Others

\* The 100 ms timer fires: armSpaceController.setEnabled(true).
EnableTimer ==
  /\ page.pc = "between"
  /\ page.timer
  /\ page' = [page EXCEPT !.timer = FALSE, !.enabled = TRUE]
  /\ UNCHANGED Others

\* The Arm Space slider: armSpaceController.setArmSpace(value).
SetArmSpace(value) ==
  /\ page.pc = "between"
  /\ page.vrm
  /\ page' = [page EXCEPT !.armSpaceOffset = value]
  /\ UNCHANGED Others

\* An animation button plays a clip that has loaded (gui.js, lines 63-71).
PlayLoadedClip ==
  /\ page.pc = "between"
  /\ page.load # "none"
  /\ page' = [page EXCEPT !.playing = TRUE]
  /\ UNCHANGED Others

\* The browser calls animate(): lines 157-159.
BeginFrame ==
  /\ page.pc = "between"
  /\ page.frames < MaxFrames
  /\ page' = [page EXCEPT !.pc = StepAfter("begin"), !.steps = << >>,
                          !.written = FALSE, !.overlaid = FALSE,
                          !.frames = @ + 1]
  /\ UNCHANGED Others

\* Line 162: animationController.update(deltaTime), that is
\* mixer.update.  The mixer computes a pose when an action is assigned,
\* and writes it to the bones when it differs from the pose it computed
\* the frame before (changed); it does not when no action is assigned or
\* the action is held at one pose (a clamped finished clip, time scale 0).
AnimationUpdate(changed) ==
  /\ page.pc = "playback"
  /\ LET writes == page.vrm /\ page.playing /\ changed
         pose == IF writes THEN NextPose(page.pose) ELSE page.pose
     IN page' = [page EXCEPT
                   !.pc = StepAfter("playback"),
                   !.steps = Logged("playback", page.vrm),
                   !.pose = pose,
                   !.left = IF writes THEN Bone(pose, 0) ELSE @,
                   !.right = IF writes THEN Bone(pose, 0) ELSE @,
                   !.written = writes,
                   !.posed = @ \/ writes]
  /\ UNCHANGED Others

\* Lines 165-166: expressionController.update
ExpressionUpdate ==
  /\ page.pc = "expression"
  /\ page' = [page EXCEPT !.pc = StepAfter("expression"),
                          !.steps = Logged("expression", page.vrm)]
  /\ UNCHANGED Others

\* Line 167 and ArmSpaceController.update (AnimationController.js, lines
\* 255-279): each upper arm's quaternion is multiplied in place by the
\* adjustment.  applied keeps the scaledOffset of the last update that
\* turned the arms (line 265), empty before the first.
ArmSpaceUpdate ==
  /\ page.pc = "armSpace"
  /\ LET applies == page.vrm /\ page.enabled /\ page.arms
         scaledOffset == page.armSpaceOffset * Attenuation
     IN page' = [page EXCEPT
                   !.pc = StepAfter("armSpace"),
                   !.steps = Logged("armSpace", page.vrm),
                   !.left = IF applies
                              THEN Bone(@.pose, @.extra - scaledOffset)
                              ELSE @,
                   !.right = IF applies
                               THEN Bone(@.pose, @.extra + scaledOffset)
                               ELSE @,
                   !.overlaid = applies,
                   !.applied = IF applies THEN <<scaledOffset>> ELSE @]
  /\ UNCHANGED Others

\* Line 168: lookAtController.update
LookAtUpdate ==
  /\ page.pc = "lookAt"
  /\ page' = [page EXCEPT !.pc = StepAfter("lookAt"),
                          !.steps = Logged("lookAt", page.vrm)]
  /\ UNCHANGED Others

\* Line 169: currentVrm.update, which finalizes the skeleton
VrmUpdate ==
  /\ page.pc = "finalize"
  /\ page' = [page EXCEPT !.pc = StepAfter("finalize"),
                          !.steps = Logged("finalize", page.vrm)]
  /\ UNCHANGED Others

\* Line 171: renderer.render; animate() returns.
Render ==
  /\ page.pc = "render"
  /\ page' = [page EXCEPT !.pc = StepAfter("render"),
                          !.steps = Logged("render", TRUE)]
  /\ UNCHANGED Others

PageInit ==
  /\ ControllerInit
  /\ loadRuns = NoRuns
  /\ retarget = NoRetarget
  /\ lookAt = NoLookAt
  /\ face = NoFace
  /\ page = PageStart

PageNext ==
  \/ \E arms \in BOOLEAN : VrmLoaded(arms)
  \/ \E idleLoaded \in BOOLEAN : LoadAllSettled(idleLoaded)
  \/ EnableTimer
  \/ \E value \in ArmSpaces : SetArmSpace(value)
  \/ PlayLoadedClip
  \/ BeginFrame
  \/ \E changed \in BOOLEAN : AnimationUpdate(changed)
  \/ ExpressionUpdate
  \/ ArmSpaceUpdate
  \/ LookAtUpdate
  \/ VrmUpdate
  \/ Render

PageSpec == PageInit /\ [][PageNext]_vars

\* ------------------------------------------------------------- C16

\* C16: the limb-spacing overlay is disabled from construction and is
\* enabled only after a frame in which playback has written an animated
\* pose to the skeleton.
C16_EnabledAfterPose ==
  /\ ~page.vrm => ~page.enabled
  /\ page.enabled => page.posed

\* What the code does guarantee: the overlay is disabled from
\* construction until loadAllAnimations has resolved and the timer fired.
EnabledAfterLoad ==
  /\ ~page.vrm => ~page.enabled
  /\ page.enabled => page.load = "done" /\ ~page.timer

\* ------------------------------------------------------------- C17

\* The enabled overlay has run on both upper arms in the frame that is
\* being run.
AfterOverlay ==
  /\ page.overlaid
  /\ page.pc \in {"lookAt", "finalize", "render"}

\* C17: in every frame in which the enabled overlay has run on both
\* upper arms, each arm's rotation is that frame's playback pose composed
\* with exactly one rotation of offset * 0.15 about Z, negative on the
\* left and positive on the right; nothing accumulates over the frames.
C17_OverlayOnce ==
  AfterOverlay =>
    /\ page.left = Bone(page.pose, -(page.armSpaceOffset * Attenuation))
    /\ page.right = Bone(page.pose, page.armSpaceOffset * Attenuation)

\* What the code does guarantee: the same in the frames in which the
\* mixer has written the pose, and opposite angles on the two sides in
\* every frame.
OverlayOnWrittenPose ==
  /\ AfterOverlay /\ page.written =>
       /\ page.left = Bone(page.pose, -(page.armSpaceOffset * Attenuation))
       /\ page.right = Bone(page.pose, page.armSpaceOffset * Attenuation)
  /\ page.left.pose = page.right.pose
  /\ page.left.extra = -page.right.extra

\* The overlay has run twice on a pose the mixer wrote once: with offset
\* 2.0 the left arm is turned by 0.60 rad, not 0.30.
OverlayAccumulated ==
  /\ AfterOverlay
  /\ ~page.written
  /\ page.armSpaceOffset = 200
  /\ page.left.extra = -6000
  /\ page.right.extra = 6000

\* ------------------------------------------------------------- C18

FrameSteps == <<"playback", "expression", "armSpace", "lookAt", "finalize",
                "render">>

\* the place of a step in the order of the claim
Place(step) == CHOOSE k \in 1..Len(FrameSteps) : FrameSteps[k] = step

\* The steps run so far in the frame are in the order of FrameSteps, each
\* at most once; a frame that has ended has rendered, and a frame of a
\* loaded model has run every step.
StepsInOrder ==
  /\ \A i, j \in 1..Len(page.steps) :
       i < j => Place(page.steps[i]) < Place(page.steps[j])
  /\ \A i \in 1..Len(page.steps) :
       page.steps[i] \in {"armSpace", "lookAt"} =>
         \E j \in 1..(i - 1) : page.steps[j] = "playback"
  /\ page.pc = "between" /\ page.frames > 0 =>
       /\ page.steps[Len(page.steps)] = "render"
       /\ Len(page.steps) \in {1, Len(FrameSteps)}

\* A step taken inside a frame is the next call of animate(): it leaves
\* what the timer, the load and the GUI callbacks set as it is, and logs
\* at most one step.
FrameRunsAlone ==
  page.pc # "between" =>
    /\ page'.pc = StepAfter(page.pc)
    /\ <<page'.vrm, page'.arms, page'.load, page'.playing, page'.timer,
         page'.enabled, page'.armSpaceOffset, page'.frames>>
         = <<page.vrm, page.arms, page.load, page.playing, page.timer,
             page.enabled, page.armSpaceOffset, page.frames>>
    /\ \/ page'.steps = page.steps
       \/ page'.steps = Append(page.steps, page.pc)

\* C18: in every frame the steps run synchronously, each at most once, in
\* the order playback, expression, limb-spacing overlay, gaze overlay,
\* skeleton finalization, render; no overlay runs before the playback
\* update or after the finalization, and no timer or load callback runs
\* between two steps of a frame.
C18_FrameOrder == [](StepsInOrder) /\ [][FrameRunsAlone]_vars

\* A frame of a loaded model has run all six steps with the overlay
\* enabled, after the timer and the load callbacks ran.
C18_Witness ==
  /\ page.pc = "between"
  /\ page.steps = FrameSteps
  /\ page.overlaid
  /\ page.load = "done"
  /\ page.frames > 1

\* ------------------------------------------------------ the gaze overlay
\* LookAtController (utils/LookAtController.js) and the target of
\* vrm.lookAt.  Angles are in 1/100000 rad, positions in 1/1000,
\* intensities and the smoothing in 1/100 (the step of the GUI sliders),
\* deltaTime in 1/60 s; a product is rounded to the nearest unit.

\* the calls followed: updates, setters and camera moves
MaxCalls == 5

\* const threshold = 0.001
AngleThreshold == 100

\* eyeDiff < 0.01
EyeThreshold == 10

\* Math.PI * 0.5 and Math.PI * 0.4
MaxHorizontal == 157080

MaxVertical == 125664

\* camera.position.set(0.0, 1.5, 3.5)
CameraStart == <<0, 1500, 3500>>

CameraPositions == {CameraStart, <<8, 1500, 3500>>}

EyeIntensities == {0, 100}

HeadIntensities == {0, 30, 100}

Smoothings == {0, 10, 100}

VerticalOffsets == {0, 200}

\* deltaTime * 60
Ticks == {0, 1, 2}

\* <<horizontal, vertical>>: atan2 and asin of the direction from the head
\* to the target, which the camera and the animated head decide
Directions == {<<250, -125>>, <<150000, 100000>>}

Points == {<<1000, 1500, 0>>}

\* the same angles for the direction from the head to a point given to
\* lookAtPoint, which may lie behind or above the head
PointDirections == {<<250, -125>>, <<235619, 140000>>}

RoundDiv(a, b) ==
  IF a >= 0 THEN (2 * a + b) \div (2 * b)
  ELSE -((2 * (-a) + b) \div (2 * b))

\* d * f for a fraction f
Times(d, f) == RoundDiv(d * f[1], f[2])

\* x + (y - x) * t, on values
Interpolated[x \in Int, y \in Int, t \in Int \X Int] == x + Times(y - x, t)

\* MathUtils.lerp(x, y, t)
Lerp(x, y, t) == Interpolated[x, y, t]

\* Vector3.lerp
VLerp(v, w, t) == [k \in 1..3 |-> Lerp(v[k], w[k], t)]

\* MathUtils.clamp
Clamp(value, min, max) ==
  IF value < min THEN min ELSE IF value > max THEN max ELSE value

Abs(x) == IF x < 0 THEN -x ELSE x

\* the square of Vector3.distanceTo
DistanceSquared(v, w) ==
  (v[1] - w[1]) * (v[1] - w[1]) + (v[2] - w[2]) * (v[2] - w[2])
    + (v[3] - w[3]) * (v[3] - w[3])

RECURSIVE Pow(_, _)
Pow(x, n) == IF n = 0 THEN One ELSE FracMul(x, Pow(x, n - 1))

\* Mutant of EyeSmoothingFactor: smoothing * deltaTime * 60, capped at 1.
EyeSmoothingFactorLinear(smoothing, ticks) ==
  IF smoothing * ticks > 100 THEN <<1, 1>>
  ELSE LET RECURSIVE Common(_, _)
           Common(a, b) == IF b = 0 THEN a ELSE Common(b, a % b)
           g == Common(smoothing * ticks, 100)
       IN <<(smoothing * ticks) \div g, 100 \div g>>

\* line 83: 1.0 - Math.pow(1.0 - this.smoothing, deltaTime * 60)
EyeSmoothingFactor(smoothing, ticks) ==
  LET power == Pow(Frac(100 - smoothing, 100), ticks)
  IN Frac(power[2] - power[1], power[2])

\* line 84, headSmoothingMultiplier = 0.8
HeadSmoothingFactor(eyeSmoothingFactor) ==
  FracMul(eyeSmoothingFactor, Frac(8, 10))

\* headSmoothingFactor * 0.7
NeckSmoothingFactor(headSmoothingFactor) ==
  FracMul(headSmoothingFactor, Frac(7, 10))

\* a bone the overlay has not written, and one it set to Euler(x, y, 0)
Unwritten == [written |-> FALSE, x |-> 0, y |-> 0]

Written(x, y) == [written |-> TRUE, x |-> x, y |-> y]

\* The constructor, lines 4-49, with the camera where main.js puts it.
LookAtStart(hasLookAt, hasNeck) ==
  [hasLookAt |-> hasLookAt, hasNeck |-> hasNeck,
   camera |-> CameraStart,
   enabled |-> TRUE, eyeIntensity |-> 100, headIntensity |-> 30,
   smoothing |-> 10, verticalOffset |-> 0,
   targetObject |-> CameraStart,
   currentTarget |-> <<0, 0, 0>>,
   smoothedEyeTarget |-> CameraStart,
   defaultEyeTarget |-> CameraStart,
   targetHeadRotationX |-> 0, targetHeadRotationY |-> 0,
   smoothedHeadRotationX |-> 0, smoothedHeadRotationY |-> 0,
   targetNeckRotationX |-> 0, targetNeckRotationY |-> 0,
   smoothedNeckRotationX |-> 0, smoothedNeckRotationY |-> 0,
   target |-> "null",
   head |-> Unwritten, neck |-> Unwritten,
   calls |-> 0, updated |-> FALSE]

\* Mutant of EyeTarget: an enabled update with eye intensity 0 releases
\* the target.
EyeTargetReleased(s) ==
  IF s.eyeIntensity > 0 THEN "targetObject" ELSE "null"

\* lines 99-102: vrm.lookAt.target after the enabled branch
EyeTarget(s) ==
  IF s.eyeIntensity > 0 THEN "targetObject" ELSE s.target

\* Mutant of UpdateEnabled: the neck is turned at every head intensity
\* above 0.
UpdateEnabledNeckAlways(s, ticks, direction) ==
  LET eyeSmoothingFactor == EyeSmoothingFactor(s.smoothing, ticks)
      headSmoothingFactor == HeadSmoothingFactor(eyeSmoothingFactor)
      neckSmoothingFactor == NeckSmoothingFactor(headSmoothingFactor)
      currentTarget == <<s.camera[1], s.camera[2] + s.verticalOffset,
                         s.camera[3]>>
      smoothedEyeTarget ==
        VLerp(s.smoothedEyeTarget, currentTarget, eyeSmoothingFactor)
      eyes == [s EXCEPT !.currentTarget = currentTarget,
                        !.smoothedEyeTarget = smoothedEyeTarget,
                        !.targetObject = smoothedEyeTarget,
                        !.target = EyeTarget(s)]
      targetY == Clamp(Times(direction[1] * s.headIntensity * 2,
                             <<1, 100>>), -MaxHorizontal, MaxHorizontal)
      targetX == Clamp(Times(direction[2] * s.headIntensity * 2,
                             <<1, 100>>), -MaxVertical, MaxVertical)
      headX == Lerp(s.smoothedHeadRotationX, targetX, headSmoothingFactor)
      headY == Lerp(s.smoothedHeadRotationY, targetY, headSmoothingFactor)
      headed == [eyes EXCEPT !.targetHeadRotationX = targetX,
                             !.targetHeadRotationY = targetY,
                             !.smoothedHeadRotationX = headX,
                             !.smoothedHeadRotationY = headY,
                             !.head = Written(headX, headY)]
      neckTargetX == Times(targetX * (s.headIntensity - 50), <<3, 2000>>)
      neckTargetY == Times(targetY * (s.headIntensity - 50), <<3, 2000>>)
      neckX == Lerp(s.smoothedNeckRotationX, neckTargetX,
                    neckSmoothingFactor)
      neckY == Lerp(s.smoothedNeckRotationY, neckTargetY,
                    neckSmoothingFactor)
  IN IF s.headIntensity > 0
       THEN IF s.hasNeck
              THEN [headed EXCEPT !.targetNeckRotationX = neckTargetX,
                                  !.targetNeckRotationY = neckTargetY,
                                  !.smoothedNeckRotationX = neckX,
                                  !.smoothedNeckRotationY = neckY,
                                  !.neck = Written(neckX, neckY)]
              ELSE headed
       ELSE eyes

\* lines 86-192: the enabled branch of update
UpdateEnabled(s, ticks, direction) ==
  LET eyeSmoothingFactor == EyeSmoothingFactor(s.smoothing, ticks)
      headSmoothingFactor == HeadSmoothingFactor(eyeSmoothingFactor)
      neckSmoothingFactor == NeckSmoothingFactor(headSmoothingFactor)
      currentTarget == <<s.camera[1], s.camera[2] + s.verticalOffset,
                         s.camera[3]>>
      smoothedEyeTarget ==
        VLerp(s.smoothedEyeTarget, currentTarget, eyeSmoothingFactor)
      eyes == [s EXCEPT !.currentTarget = currentTarget,
                        !.smoothedEyeTarget = smoothedEyeTarget,
                        !.targetObject = smoothedEyeTarget,
                        !.target = EyeTarget(s)]
      targetY == Clamp(Times(direction[1] * s.headIntensity * 2,
                             <<1, 100>>), -MaxHorizontal, MaxHorizontal)
      targetX == Clamp(Times(direction[2] * s.headIntensity * 2,
                             <<1, 100>>), -MaxVertical, MaxVertical)
      headX == Lerp(s.smoothedHeadRotationX, targetX, headSmoothingFactor)
      headY == Lerp(s.smoothedHeadRotationY, targetY, headSmoothingFactor)
      headed == [eyes EXCEPT !.targetHeadRotationX = targetX,
                             !.targetHeadRotationY = targetY,
                             !.smoothedHeadRotationX = headX,
                             !.smoothedHeadRotationY = headY,
                             !.head = Written(headX, headY)]
      neckTargetX == Times(targetX * (s.headIntensity - 50), <<3, 2000>>)
      neckTargetY == Times(targetY * (s.headIntensity - 50), <<3, 2000>>)
      neckX == Lerp(s.smoothedNeckRotationX, neckTargetX,
                    neckSmoothingFactor)
      neckY == Lerp(s.smoothedNeckRotationY, neckTargetY,
                    neckSmoothingFactor)
  IN IF s.headIntensity > 0
       THEN IF s.hasNeck /\ s.headIntensity > 50
              THEN [headed EXCEPT !.targetNeckRotationX = neckTargetX,
                                  !.targetNeckRotationY = neckTargetY,
                                  !.smoothedNeckRotationX = neckX,
                                  !.smoothedNeckRotationY = neckY,
                                  !.neck = Written(neckX, neckY)]
              ELSE headed
       ELSE eyes

\* lines 259-266: everything is close enough to the default
CloseToDefault(s) ==
  /\ Abs(s.smoothedHeadRotationX) < AngleThreshold
  /\ Abs(s.smoothedHeadRotationY) < AngleThreshold
  /\ Abs(s.smoothedNeckRotationX) < AngleThreshold
  /\ Abs(s.smoothedNeckRotationY) < AngleThreshold
  /\ DistanceSquared(s.smoothedEyeTarget, s.defaultEyeTarget)
       < EyeThreshold * EyeThreshold

\* Mutant of ReleasedTarget: the target is released as soon as the head
\* angles are small.
ReleasedTargetOnHead(s) ==
  IF /\ Abs(s.smoothedHeadRotationX) < AngleThreshold
     /\ Abs(s.smoothedHeadRotationY) < AngleThreshold
    THEN "null" ELSE "targetObject"

\* lines 201 and 262-270: vrm.lookAt.target at the end of the disabled
\* branch, s holding the values smoothed in this update
ReleasedTarget(s) ==
  IF CloseToDefault(s) THEN "null" ELSE "targetObject"

\* lines 193-271: the disabled branch of update
UpdateDisabled(s, ticks) ==
  LET eyeSmoothingFactor == EyeSmoothingFactor(s.smoothing, ticks)
      headSmoothingFactor == HeadSmoothingFactor(eyeSmoothingFactor)
      neckSmoothingFactor == NeckSmoothingFactor(headSmoothingFactor)
      smoothedEyeTarget ==
        VLerp(s.smoothedEyeTarget, s.defaultEyeTarget, eyeSmoothingFactor)
      headX == Lerp(s.smoothedHeadRotationX, 0, headSmoothingFactor)
      headY == Lerp(s.smoothedHeadRotationY, 0, headSmoothingFactor)
      neckX == Lerp(s.smoothedNeckRotationX, 0, neckSmoothingFactor)
      neckY == Lerp(s.smoothedNeckRotationY, 0, neckSmoothingFactor)
      eased == [s EXCEPT !.smoothedEyeTarget = smoothedEyeTarget,
                         !.targetObject = smoothedEyeTarget,
                         !.targetHeadRotationX = 0,
                         !.targetHeadRotationY = 0,
                         !.targetNeckRotationX = 0,
                         !.targetNeckRotationY = 0,
                         !.smoothedHeadRotationX = headX,
                         !.smoothedHeadRotationY = headY,
                         !.smoothedNeckRotationX = neckX,
                         !.smoothedNeckRotationY = neckY,
                         !.head = Written(headX, headY),
                         !.neck = IF s.hasNeck THEN Written(neckX, neckY)
                                  ELSE @]
  IN [e \in {eased} |-> [e EXCEPT !.target = ReleasedTarget(e)]][eased]

\* update(deltaTime), lines 74-272
LookAtControllerUpdate(s, ticks, direction) ==
  IF ~s.hasLookAt THEN s
  ELSE IF s.enabled THEN UpdateEnabled(s, ticks, direction)
  ELSE UpdateDisabled(s, ticks)

\* lookAtPoint(point), lines 275-304
LookAtPointOf(s, point, direction) ==
  IF ~s.enabled \/ ~s.hasLookAt THEN s
  ELSE LET aimed == [s EXCEPT !.currentTarget = point,
                              !.smoothedEyeTarget = point,
                              !.targetObject = point,
                              !.target = "targetObject"]
           targetY == Times(direction[1] * s.headIntensity, <<1, 100>>)
           targetX == Times(direction[2] * s.headIntensity, <<1, 100>>)
       IN IF s.headIntensity > 0
            THEN [aimed EXCEPT !.targetHeadRotationX = targetX,
                               !.targetHeadRotationY = targetY,
                               !.smoothedHeadRotationX = targetX,
                               !.smoothedHeadRotationY = targetY]
            ELSE aimed

Rest == <<controllerVars, loadRuns, retarget, page, face>>

\* The frame loop calls lookAtController.update(deltaTime).
LookAtFrame(ticks, direction) ==
  /\ lookAt.calls < MaxCalls
  /\ lookAt' = [LookAtControllerUpdate(lookAt, ticks, direction)
                  EXCEPT !.calls = @ + 1, !.updated = TRUE]
  /\ UNCHANGED Rest

\* setEnabled, lines 53-56
SetEnabled(enabled) ==
  /\ lookAt.calls < MaxCalls
  /\ lookAt' = [lookAt EXCEPT !.enabled = enabled, !.calls = @ + 1, !.updated = FALSE]
  /\ UNCHANGED Rest

\* setEyeIntensity, lines 58-60
SetEyeIntensity(value) ==
  /\ lookAt.calls < MaxCalls
  /\ lookAt' = [lookAt EXCEPT !.eyeIntensity = Clamp(value, 0, 100),
                              !.calls = @ + 1, !.updated = FALSE]
  /\ UNCHANGED Rest

\* setHeadIntensity, lines 62-64
SetHeadIntensity(value) ==
  /\ lookAt.calls < MaxCalls
  /\ lookAt' = [lookAt EXCEPT !.headIntensity = Clamp(value, 0, 100),
                              !.calls = @ + 1, !.updated = FALSE]
  /\ UNCHANGED Rest

\* setSmoothing, lines 66-68
SetSmoothing(value) ==
  /\ lookAt.calls < MaxCalls
  /\ lookAt' = [lookAt EXCEPT !.smoothing = Clamp(value, 0, 100),
                              !.calls = @ + 1, !.updated = FALSE]
  /\ UNCHANGED Rest

\* setVerticalOffset, lines 70-72
SetVerticalOffset(value) ==
  /\ lookAt.calls < MaxCalls
  /\ lookAt' = [lookAt EXCEPT !.verticalOffset = value,
                              !.calls = @ + 1, !.updated = FALSE]
  /\ UNCHANGED Rest

\* lookAtPoint(point)
LookAtPoint(point, direction) ==
  /\ lookAt.calls < MaxCalls
  /\ lookAt' = [LookAtPointOf(lookAt, point, direction)
                  EXCEPT !.calls = @ + 1, !.updated = FALSE]
  /\ UNCHANGED Rest

\* reset(), lines 307-313
ResetLookAt ==
  /\ lookAt.calls < MaxCalls
  /\ lookAt' = [lookAt EXCEPT
                  !.enabled = IF lookAt.hasLookAt THEN FALSE ELSE @,
                  !.calls = @ + 1, !.updated = FALSE]
  /\ UNCHANGED Rest

\* The orbit controls move the camera.
MoveCamera(position) ==
  /\ lookAt.calls < MaxCalls
  /\ lookAt' = [lookAt EXCEPT !.camera = position, !.calls = @ + 1, !.updated = FALSE]
  /\ UNCHANGED Rest

LookAtInit ==
  /\ ControllerInit
  /\ loadRuns = NoRuns
  /\ retarget = NoRetarget
  /\ page = NoPage
  /\ face = NoFace
  /\ \E hasLookAt, hasNeck \in BOOLEAN :
       lookAt = LookAtStart(hasLookAt, hasNeck)

LookAtNext ==
  \/ \E ticks \in Ticks, direction \in Directions :
       LookAtFrame(ticks, direction)
  \/ \E enabled \in BOOLEAN : SetEnabled(enabled)
  \/ \E value \in EyeIntensities : SetEyeIntensity(value)
  \/ \E value \in HeadIntensities : SetHeadIntensity(value)
  \/ \E value \in Smoothings : SetSmoothing(value)
  \/ \E value \in VerticalOffsets : SetVerticalOffset(value)
  \/ \E point \in Points, direction \in PointDirections :
       LookAtPoint(point, direction)
  \/ ResetLookAt
  \/ \E position \in CameraPositions : MoveCamera(position)

LookAtSpec == LookAtInit /\ [][LookAtNext]_vars

\* ------------------------------------------------------------- C19

\* C19: after any update while the overlay is enabled and the eye
\* intensity is 0, vrm.lookAt.target is not the overlay's target object.
C19_EyeAimInactive ==
  /\ lookAt.updated
  /\ lookAt.hasLookAt
  /\ lookAt.enabled
  /\ lookAt.eyeIntensity = 0
  => lookAt.target # "targetObject"

\* What the code does guarantee: an enabled update sets the target when
\* the eye intensity is above 0 and leaves it as it is when it is 0.
EnabledUpdateKeepsTarget ==
  [][lookAt'.updated /\ lookAt.hasLookAt /\ lookAt.enabled =>
       lookAt'.target = IF lookAt.eyeIntensity > 0 THEN "targetObject"
                        ELSE lookAt.target]_vars

\* The target set while the eye intensity was 1 is still set after an
\* update with eye intensity 0.
StaleEyeTarget ==
  /\ lookAt.updated
  /\ lookAt.enabled
  /\ lookAt.eyeIntensity = 0
  /\ lookAt.target = "targetObject"

\* ------------------------------------------------------------- C20

\* C20: at the end of each update of the disabled overlay the target is
\* released if and only if the absolute smoothed head and neck angles are
\* all below 0.001 rad and the smoothed aim point is less than 0.01 from
\* the default; otherwise it is the overlay's target object.
C20_ReleaseAtThreshold ==
  lookAt.updated /\ lookAt.hasLookAt /\ ~lookAt.enabled =>
    LET small ==
          /\ \A angle \in {lookAt.smoothedHeadRotationX,
                           lookAt.smoothedHeadRotationY,
                           lookAt.smoothedNeckRotationX,
                           lookAt.smoothedNeckRotationY} :
               -AngleThreshold < angle /\ angle < AngleThreshold
          /\ DistanceSquared(lookAt.smoothedEyeTarget,
                             lookAt.defaultEyeTarget)
               < EyeThreshold * EyeThreshold
    IN /\ small => lookAt.target = "null"
       /\ ~small => lookAt.target = "targetObject"

\* A disabled update has released the target with the aim point off the
\* default by less than 0.01 and a head angle that is not 0.
C20_Witness ==
  /\ lookAt.updated
  /\ ~lookAt.enabled
  /\ lookAt.target = "null"
  /\ lookAt.smoothedEyeTarget # lookAt.defaultEyeTarget
  /\ lookAt.smoothedHeadRotationY # 0

\* A disabled update has kept the target although the head angles are
\* below the threshold: the aim point is too far from the default.
KeptForAimPoint ==
  /\ lookAt.updated
  /\ ~lookAt.enabled
  /\ lookAt.target = "targetObject"
  /\ Abs(lookAt.smoothedHeadRotationX) < AngleThreshold
  /\ Abs(lookAt.smoothedHeadRotationY) < AngleThreshold

\* ------------------------------------------------------------- C21
\* The disabled overlay with frames that keep arriving: the calls of
\* LookAtSpec up to MaxCalls, and then frames of the disabled overlay
\* without end.

\* the calls followed before the frames of the disabled overlay
LiveCalls == 4

\* A frame of 1/60 s reaches the disabled overlay; from here on only such
\* frames are followed.
EaseFrame ==
  /\ lookAt.hasLookAt
  /\ ~lookAt.enabled
  /\ lookAt' = [UpdateDisabled(lookAt, 1)
                  EXCEPT !.calls = MaxCalls, !.updated = TRUE]
  /\ UNCHANGED Rest

LookAtLiveInit ==
  /\ ControllerInit
  /\ loadRuns = NoRuns
  /\ retarget = NoRetarget
  /\ page = NoPage
  /\ face = NoFace
  /\ \E hasNeck \in BOOLEAN :
       lookAt = [LookAtStart(TRUE, hasNeck)
                   EXCEPT !.calls = MaxCalls - LiveCalls]

LookAtLiveNext ==
  \/ \E ticks \in Ticks, direction \in Directions :
       LookAtFrame(ticks, direction)
  \/ \E enabled \in BOOLEAN : SetEnabled(enabled)
  \/ \E value \in HeadIntensities : SetHeadIntensity(value)
  \/ \E value \in Smoothings : SetSmoothing(value)
  \/ \E value \in VerticalOffsets : SetVerticalOffset(value)
  \/ EaseFrame

LookAtLiveSpec ==
  LookAtLiveInit /\ [][LookAtLiveNext]_vars /\ WF_vars(EaseFrame)

\* The binding is released with everything close to the default.
Released ==
  /\ lookAt.target = "null"
  /\ CloseToDefault(lookAt)

\* the fields a setter call leaves alone: the bones, the binding and
\* every smoothed or target value
Posed(s) ==
  <<s.head, s.neck, s.target, s.targetObject, s.currentTarget,
    s.smoothedEyeTarget, s.smoothedHeadRotationX, s.smoothedHeadRotationY,
    s.smoothedNeckRotationX, s.smoothedNeckRotationY,
    s.targetHeadRotationX, s.targetHeadRotationY,
    s.targetNeckRotationX, s.targetNeckRotationY>>

DisablingChangesNothing ==
  lookAt.enabled /\ ~lookAt'.enabled => Posed(lookAt') = Posed(lookAt)

\* C21: after the overlay is disabled, with frames of positive deltaTime
\* arriving and no re-enabling, the aim point and the angles ease back and
\* the binding is eventually released, for every smoothing value;
\* disabling itself changes no bone and no smoothed value.
C21_EasesBack ==
  /\ [][DisablingChangesNothing]_vars
  /\ (~lookAt.enabled) ~> (lookAt.enabled \/ Released)

\* What the code does guarantee: the same for every smoothing above 0.
EasesBackWhenSmoothing ==
  /\ [][DisablingChangesNothing]_vars
  /\ (~lookAt.enabled /\ lookAt.smoothing > 0)
       ~> (lookAt.enabled \/ lookAt.smoothing = 0 \/ Released)

\* The disabled overlay is frozen away from the default: smoothing 0.
FrozenDisabled ==
  /\ ~lookAt.enabled
  /\ lookAt.updated
  /\ lookAt.calls = MaxCalls
  /\ lookAt.smoothing = 0
  /\ lookAt.smoothedHeadRotationY >= AngleThreshold
  /\ lookAt.target = "targetObject"

\* ------------------------------------------------------- gaze smoothing
\* One smoothed quantity of the overlay (a component of the eye aim point,
\* or a head angle) followed exactly: its value is a fraction, its target
\* an integer that stays the same, and every frame eases it once.

MaxSmoothFrames == 3

SmoothStarts == {-2, 0, 3}

AimTargets == {0, 1}

SmoothedKinds == {"eye", "head"}

\* MathUtils.lerp, (1 - t) * x + t * y, and Vector3.lerp on one component,
\* without rounding
ExactLerp(x, y, t) ==
  Frac(x[1] * (t[2] - t[1]) + y * x[2] * t[1], x[2] * t[2])

\* lines 83-84: the factor the eye aim point and the head angles are eased
\* with
SmoothingFactor(kind, smoothing, ticks) ==
  IF kind = "eye" THEN EyeSmoothingFactor(smoothing, ticks)
  ELSE HeadSmoothingFactor(EyeSmoothingFactor(smoothing, ticks))

\* lines 93 and 139-148: one update eases the value toward the target
Smoothed(kind, smoothing, value, target, ticks) ==
  ExactLerp(value, target, SmoothingFactor(kind, smoothing, ticks))

SmoothInit ==
  /\ ControllerInit
  /\ loadRuns = NoRuns
  /\ retarget = NoRetarget
  /\ page = NoPage
  /\ face = NoFace
  /\ \E kind \in SmoothedKinds, smoothing \in Smoothings,
        start \in SmoothStarts, target \in AimTargets :
       lookAt = [pc |-> "smoothing", kind |-> kind, smoothing |-> smoothing,
                 target |-> target, start |-> start,
                 previous |-> <<start, 1>>, value |-> <<start, 1>>,
                 ticks |-> 0, elapsed |-> 0, frames |-> 0]

\* update(deltaTime) with deltaTime * 60 = ticks > 0
SmoothFrame(ticks) ==
  /\ lookAt.pc = "smoothing"
  /\ lookAt.frames < MaxSmoothFrames
  /\ ticks > 0
  /\ lookAt' = [lookAt EXCEPT
                  !.previous = lookAt.value,
                  !.value = Smoothed(lookAt.kind, lookAt.smoothing,
                                     lookAt.value, lookAt.target, ticks),
                  !.ticks = ticks,
                  !.elapsed = @ + ticks,
                  !.frames = @ + 1]
  /\ UNCHANGED Rest

SmoothNext == \E ticks \in Ticks : SmoothFrame(ticks)

SmoothSpec == SmoothInit /\ [][SmoothNext]_vars

\* |x - y| for a fraction x and an integer y
Distance(x, y) == <<Abs(x[1] - y * x[2]), x[2]>>

\* a < b for fractions with positive denominators
FracLess(a, b) ==
  LET g == GCD(a[2], b[2])
  IN a[1] * (b[2] \div g) < b[1] * (a[2] \div g)

\* the value is on the side of the target it was on, or on the target
NotPassed(previous, value, target) ==
  LET before == previous[1] - target * previous[2]
      after == value[1] - target * value[2]
  IN \/ after = 0
     \/ before > 0 /\ after > 0
     \/ before < 0 /\ after < 0

\* the frame just taken brought the value strictly nearer to the target,
\* by the ratio 1 - factor, without passing it
Nearer(s) ==
  LET before == Distance(s.previous, s.target)
      after == Distance(s.value, s.target)
      factor == SmoothingFactor(s.kind, s.smoothing, s.ticks)
  IN /\ before[1] # 0 => FracLess(after, before)
     /\ NotPassed(s.previous, s.value, s.target)
     /\ after = Frac(before[1] * (factor[2] - factor[1]), before[2] * factor[2])
     /\ factor[1] > 0

\* C22: with a constant target, every frame of positive deltaTime brings the
\* smoothed value strictly nearer to the target while it is off it, by a
\* ratio below 1 that the smoothing and deltaTime fix, and never past it,
\* for every smoothing value setSmoothing accepts.
C22_Converges == lookAt.frames > 0 => Nearer(lookAt)

\* the same for a smoothing value above 0
ConvergesWhenSmoothing ==
  lookAt.frames > 0 /\ lookAt.smoothing > 0 => Nearer(lookAt)

\* with smoothing 0 a frame leaves the value where it was, off the target
StaysPut ==
  /\ lookAt.frames > 0
  /\ lookAt.smoothing = 0
  /\ lookAt.value = lookAt.previous
  /\ lookAt.value # <<lookAt.target, 1>>

\* C23: the eye aim point after update(d1), update(d2), ... is the one a
\* single update(d1 + d2 + ...) gives from the same start.
C23_ElapsedTimeOnly ==
  lookAt.kind = "eye" /\ lookAt.frames > 0
    => lookAt.value = Smoothed("eye", lookAt.smoothing, <<lookAt.start, 1>>,
                               lookAt.target, lookAt.elapsed)

\* two frames of different lengths have moved the aim point part of the way
C23_Witness ==
  /\ lookAt.kind = "eye"
  /\ lookAt.frames = 2
  /\ lookAt.elapsed = 3
  /\ lookAt.smoothing = 10
  /\ lookAt.value # lookAt.previous
  /\ lookAt.value # <<lookAt.target, 1>>

\* the head angles, eased with 0.8 times the factor, do depend on how the
\* time is divided
HeadDependsOnFrames ==
  /\ lookAt.kind = "head"
  /\ lookAt.frames = 2
  /\ lookAt.value # Smoothed("head", lookAt.smoothing, <<lookAt.start, 1>>,
                             lookAt.target, lookAt.elapsed)

\* ----------------------------------------------------------- expressions
\* ExpressionController.js.  Times are in ms, weights in thousandths,
\* Math.random() in hundredths.

\* BlinkController config (lines 78-84): duration, minInterval, maxInterval
\* in ms, doubleBlinkChance and speedVariation in hundredths
BlinkDuration == 100

MinInterval == 5000

MaxInterval == 15000

DoubleBlinkChance == 10

SpeedVariation == 40

\* line 139: the second blink of a double blink comes 0.1 s after the first
QuickGap == 100

\* EmotionController (lines 162 and 191): transitionSpeed * 0.016
TransitionStep == 32

\* transitionSpeed, in thousandths per ms
TransitionSpeed == 2

\* values of Math.random()
Randoms == {0, 99}

EmotionNames == {"happy", "sad"}

ScriptedNames == {"surprised", "a"}

ExpressionNames == {"blink"} \cup EmotionNames \cup ScriptedNames

\* Math.sin(p * Math.PI) for p in thousandths, as the parabola 4p(1 - p):
\* 0 at p = 0 and p = 1, 1 at p = 1/2, in [0, 1] between, negative outside
SinPi(p) == (4 * p * (1000 - p)) \div 1000

\* BlinkController as constructed (lines 69-76), with the starts of the
\* last two blinks and how the last one was scheduled
BlinkStart ==
  [nextBlinkTime |-> 0, blinkStartTime |-> -1, isBlinking |-> FALSE,
   blinkSpeed |-> 10000, doubleBlinkActive |-> FALSE, doubleBlinkCount |-> 0,
   blinks |-> 0, lastStart |-> -1, previousStart |-> -1,
   scheduledQuick |-> FALSE, quickRun |-> 0, lastEnd |-> -1,
   previousEnd |-> -1]

\* startBlink(currentTime), lines 101-117; blinkSpeed in ten-thousandths
StartBlink(b, currentTime, rSpeed, rDouble) ==
  LET double == ~b.doubleBlinkActive /\ rDouble < DoubleBlinkChance
  IN [b EXCEPT
        !.isBlinking = TRUE,
        !.blinkStartTime = currentTime,
        !.blinkSpeed = 10000 - (SpeedVariation * 100) \div 2
                         + rSpeed * SpeedVariation,
        !.doubleBlinkActive = IF double THEN TRUE ELSE @,
        !.doubleBlinkCount = IF double THEN 0 ELSE @,
        !.blinks = IF @ < 2 THEN @ + 1 ELSE @,
        !.previousStart = b.lastStart,
        !.previousEnd = b.lastEnd,
        !.lastStart = currentTime,
        !.quickRun = IF b.scheduledQuick THEN @ + 1 ELSE 0]

\* Mutant of EndBlink: the interval to the next blink runs from the start of
\* the blink that ends.
EndBlinkFromStart(b, currentTime, rInterval) ==
  IF b.doubleBlinkActive /\ b.doubleBlinkCount < 1
    THEN [b EXCEPT !.isBlinking = FALSE,
                   !.lastEnd = currentTime,
                   !.doubleBlinkCount = @ + 1,
                   !.scheduledQuick = TRUE,
                   !.nextBlinkTime = currentTime + 100]
    ELSE [b EXCEPT !.isBlinking = FALSE,
                   !.lastEnd = currentTime,
                   !.doubleBlinkActive = FALSE,
                   !.scheduledQuick = FALSE,
                   !.nextBlinkTime =
                      b.blinkStartTime + 5000
                        + (rInterval * (15000 - 5000)) \div 100]

\* Mutant of EndBlink: a double blink is counted only when it was rolled, so
\* every blink of an active double blink schedules another quick one.
EndBlinkChained(b, currentTime, rInterval) ==
  [b EXCEPT
     !.isBlinking = FALSE,
     !.lastEnd = currentTime,
     !.scheduledQuick = b.doubleBlinkActive,
     !.nextBlinkTime =
        IF b.doubleBlinkActive THEN currentTime + 100
        ELSE currentTime + 5000 + (rInterval * (15000 - 5000)) \div 100]

\* endBlink(currentTime), lines 133-148
EndBlink(b, currentTime, rInterval) ==
  IF b.doubleBlinkActive /\ b.doubleBlinkCount < 1
    THEN [b EXCEPT !.isBlinking = FALSE,
                   !.lastEnd = currentTime,
                   !.doubleBlinkCount = @ + 1,
                   !.scheduledQuick = TRUE,
                   !.nextBlinkTime = currentTime + QuickGap]
    ELSE [b EXCEPT !.isBlinking = FALSE,
                   !.lastEnd = currentTime,
                   !.doubleBlinkActive = FALSE,
                   !.scheduledQuick = FALSE,
                   !.nextBlinkTime =
                      currentTime + MinInterval
                        + (rInterval * (MaxInterval - MinInterval)) \div 100]

\* calculateBlinkValue(currentTime), lines 119-131: the controller after it
\* and the value returned.  blinkProgress = elapsed * blinkSpeed / duration.
CalculateBlinkValue(b, currentTime, rInterval) ==
  LET scaled == (currentTime - b.blinkStartTime) * b.blinkSpeed
  IN IF scaled >= BlinkDuration * 10000
       THEN [blink |-> EndBlink(b, currentTime, rInterval), value |-> 0]
       ELSE [blink |-> b,
             value |-> SinPi(scaled \div (BlinkDuration * 10))]

\* BlinkController.update(currentTime, deltaTime), lines 87-99
BlinkUpdate(b, currentTime, rSpeed, rDouble, rInterval) ==
  LET started == IF ~b.isBlinking /\ currentTime >= b.nextBlinkTime
                   THEN StartBlink(b, currentTime, rSpeed, rDouble)
                   ELSE b
  IN IF started.isBlinking
       THEN CalculateBlinkValue(started, currentTime, rInterval)
       ELSE [blink |-> started, value |-> 0]

\* EmotionController as constructed (lines 158-163); pendingEmotion is
\* undefined until setEmotion stores one
EmotionStart ==
  [currentEmotion |-> "null", emotionWeight |-> 0, targetWeight |-> 0,
   pendingEmotion |-> "null", pendingWeight |-> 0]

\* setEmotion(emotion, weight, immediate), lines 165-179
SetEmotionOf(e, emotion, weight, immediate) ==
  IF e.currentEmotion # "null" /\ e.currentEmotion # emotion
    THEN [e EXCEPT !.targetWeight = 0,
                   !.pendingEmotion = emotion,
                   !.pendingWeight = weight]
    ELSE [e EXCEPT !.currentEmotion = emotion,
                   !.targetWeight = weight,
                   !.emotionWeight = IF immediate THEN weight ELSE @]

\* lines 188-205 of getActiveEmotions: the weight moves toward the target
\* and a pending emotion takes over at 0; deltaTime is not passed in
Transition(e, deltaTime) ==
  IF e.emotionWeight = e.targetWeight THEN e
  ELSE LET delta == e.targetWeight - e.emotionWeight
           change == IF delta > 0 THEN TransitionStep ELSE -TransitionStep
           weight == IF Abs(delta) < Abs(change) THEN e.targetWeight
                     ELSE e.emotionWeight + change
       IN IF weight = 0 /\ e.pendingEmotion # "null"
            THEN [e EXCEPT !.emotionWeight = 0,
                           !.currentEmotion = e.pendingEmotion,
                           !.targetWeight = e.pendingWeight,
                           !.pendingEmotion = "null"]
            ELSE [e EXCEPT !.emotionWeight = weight]

\* lines 182-186 of getActiveEmotions: the map returned, built before the
\* weight moves
ActiveEmotions(e) ==
  IF e.currentEmotion # "null" /\ e.emotionWeight > 0
    THEN {e.currentEmotion} ELSE {}

\* ExpressionAnimations.easeOut (line 219) on thousandths
EaseOut(p) == 1000 - ((1000 - p) * (1000 - p)) \div 1000

\* the update closure of setExpression, lines 43-48
AnimatedValue(entry, currentTime) ==
  LET elapsed == currentTime - entry.startTime
      progress == Min((elapsed * 1000) \div entry.duration, 1000)
      eased == IF entry.easing = "easeOut" THEN EaseOut(progress)
               ELSE progress
  IN entry.startValue
       + ((entry.value - entry.startValue) * eased) \div 1000

\* |Math.sin(elapsed * 8)| * 0.3 (line 242): the half-wave of sin(8x) lasts
\* pi / 8 s = 393 ms
TalkingValue(elapsed) ==
  (SinPi(((Abs(elapsed) % 393) * 1000) \div 393) * 3) \div 10

\* the update closure of talking (lines 235-243) has run out
TalkingOver(entry, currentTime) ==
  currentTime - entry.startTime > entry.duration

\* lines 26-33 and 237-240: whether the entry is in activeExpressions after
\* the loop has updated it
StillActive(entry, currentTime) ==
  IF entry.kind = "talking" THEN ~TalkingOver(entry, currentTime)
  ELSE TRUE

\* lines 26-33: the value the loop writes for an entry
EntryValue(entry, currentTime) ==
  CASE entry.kind = "static" -> entry.value
    [] entry.kind = "animated" -> AnimatedValue(entry, currentTime)
    [] entry.kind = "talking" ->
         IF TalkingOver(entry, currentTime) THEN 0
         ELSE TalkingValue(currentTime - entry.startTime)

\* the calls of setEmotion, setExpression, surprise and talking followed
MaxFaceCalls == 2

\* how long the frame clock is followed when the blinks, the emotions and
\* the scripted expressions are studied, in ms
BlinkHorizon == 15200

EmotionHorizon == 250

ScriptHorizon == 2000

\* deltaTime of a frame, in ms
BlinkDeltas == {50, 100}

EmotionDeltas == {16, 33}

ScriptDeltas == {250, 500}

\* performance.now() / 1000 minus clock.elapsedTime, in ms
ClockOffsets == {0, 300}

EmotionWeights == {0, 100, 1000}

ExpressionValues == {0, 1000}

TalkDurations == {200, 1000}

NoEntries == [n \in {} |-> 0]

\* ExpressionController as constructed (lines 5-10) on a VRM whose
\* expression manager holds weight 0 for every expression
\* (requested: the emotion and the weight of the last request followed)
FaceStart(clockOffset, horizon) ==
  [pc |-> "face", currentTime |-> 0, deltaTime |-> 0,
   clockOffset |-> clockOffset, horizon |-> horizon, calls |-> 0,
   blink |-> BlinkStart, emotion |-> EmotionStart,
   activeExpressions |-> NoEntries,
   values |-> [n \in ExpressionNames |-> 0],
   produced |-> {}, removed |-> {}, surpriseDue |-> -1,
   requested |-> <<"null", 0>>]

\* ExpressionController.update(currentTime, deltaTime), lines 12-34:
\* setValue("blink"), then the emotions, then the active expressions;
\* produced holds the names written, removed the entries deleted
ExpressionControllerUpdate(f, currentTime, deltaTime, rSpeed, rDouble, rInterval) ==
  LET blinked == BlinkUpdate(f.blink, currentTime, rSpeed, rDouble, rInterval)
      emotions == ActiveEmotions(f.emotion)
      active == f.activeExpressions
      kept == {n \in DOMAIN active : StillActive(active[n], currentTime)}
  IN [f EXCEPT
        !.currentTime = currentTime,
        !.deltaTime = deltaTime,
        !.blink = blinked.blink,
        !.emotion = Transition(f.emotion, deltaTime),
        !.values = [n \in ExpressionNames |->
                      IF n \in DOMAIN active
                        THEN EntryValue(active[n], currentTime)
                      ELSE IF n \in emotions THEN f.emotion.emotionWeight
                      ELSE IF n = "blink" THEN blinked.value
                      ELSE f.values[n]],
        !.produced = {"blink"} \cup emotions \cup DOMAIN active,
        !.removed = DOMAIN active \ kept,
        !.activeExpressions = [n \in kept |-> active[n]]]

\* performance.now() / 1000 at a call made after the last frame
Now(f) == f.currentTime + f.clockOffset

\* setExpression(name, value, options), lines 36-54
SetExpressionOf(f, name, value, duration, easing) ==
  LET entry == IF duration > 0
                 THEN [kind |-> "animated", startTime |-> Now(f),
                       startValue |-> f.values[name], value |-> value,
                       duration |-> duration, easing |-> easing]
                 ELSE [kind |-> "static", startTime |-> 0, startValue |-> 0,
                       value |-> value, duration |-> 0, easing |-> "none"]
  IN [f EXCEPT !.activeExpressions =
        [n \in DOMAIN f.activeExpressions \cup {name} |->
           IF n = name THEN entry ELSE f.activeExpressions[n]]]

\* everything outside the expressions
Apart == <<controllerVars, loadRuns, retarget, page, lookAt>>

\* one frame of animate (main.js): the frame clock advances by deltaTime and
\* expressionController.update runs
FaceFrame(deltaTime, rSpeed, rDouble, rInterval) ==
  /\ face.pc = "face"
  /\ face.currentTime + deltaTime <= face.horizon
  /\ face' = ExpressionControllerUpdate(face, face.currentTime + deltaTime,
                                        deltaTime, rSpeed, rDouble, rInterval)
  /\ UNCHANGED Apart

\* emotionController.setEmotion(emotion, weight, immediate)
SetEmotion(emotion, weight, immediate) ==
  /\ face.pc = "face"
  /\ face.calls < MaxFaceCalls
  /\ face' = [face EXCEPT
                !.calls = @ + 1,
                !.emotion = SetEmotionOf(@, emotion, weight, immediate)]
  /\ UNCHANGED Apart

\* expressionController.setExpression(name, value, {duration, easing})
SetExpression(name, value, duration, easing) ==
  /\ face.pc = "face"
  /\ face.calls < MaxFaceCalls
  /\ face' = [SetExpressionOf(face, name, value, duration, easing)
                EXCEPT !.calls = @ + 1]
  /\ UNCHANGED Apart

\* ExpressionAnimations.surprise(controller), lines 222-230
Surprise ==
  /\ face.pc = "face"
  /\ face.calls < MaxFaceCalls
  /\ face.surpriseDue < 0
  /\ face' = [SetExpressionOf(face, "surprised", 1000, 200, "easeOut")
                EXCEPT !.calls = @ + 1, !.surpriseDue = Now(face) + 1000]
  /\ UNCHANGED Apart

\* the timeout of surprise, lines 227-229
SurpriseTimer ==
  /\ face.pc = "face"
  /\ face.surpriseDue >= 0
  /\ Now(face) >= face.surpriseDue
  /\ face' = [SetExpressionOf(face, "surprised", 0, 500, "none")
                EXCEPT !.surpriseDue = -1]
  /\ UNCHANGED Apart

\* ExpressionAnimations.talking(controller, duration), lines 232-245
Talking(duration) ==
  /\ face.pc = "face"
  /\ face.calls < MaxFaceCalls
  /\ face' = [face EXCEPT
                !.calls = @ + 1,
                !.activeExpressions =
                   [n \in DOMAIN @ \cup {"a"} |->
                      IF n = "a"
                        THEN [kind |-> "talking", startTime |-> Now(face),
                              startValue |-> 0, value |-> 0,
                              duration |-> duration, easing |-> "none"]
                        ELSE @[n]]]
  /\ UNCHANGED Apart

FaceInit(clockOffsets, horizon) ==
  /\ ControllerInit
  /\ loadRuns = NoRuns
  /\ retarget = NoRetarget
  /\ page = NoPage
  /\ lookAt = NoLookAt
  /\ \E clockOffset \in clockOffsets : face = FaceStart(clockOffset, horizon)

\* the blinks alone, over frames of 50 and 100 ms
\* Math.random() is called only by a frame that starts a blink (lines 104-112)
\* or ends one (line 146); a value that is not drawn is written as 0
Drawn(b, currentTime, rSpeed, rDouble, rInterval) ==
  LET starts == ~b.isBlinking /\ currentTime >= b.nextBlinkTime
      ends == /\ b.isBlinking
              /\ (currentTime - b.blinkStartTime) * b.blinkSpeed
                   >= BlinkDuration * 10000
  IN /\ starts \/ (rSpeed = 0 /\ rDouble = 0)
     /\ ends \/ rInterval = 0

BlinkNext ==
  \E deltaTime \in BlinkDeltas, rSpeed, rDouble, rInterval \in Randoms :
    /\ Drawn(face.blink, face.currentTime + deltaTime, rSpeed, rDouble,
             rInterval)
    /\ FaceFrame(deltaTime, rSpeed, rDouble, rInterval)

BlinkSpec == FaceInit({0}, BlinkHorizon) /\ [][BlinkNext]_vars

\* the emotions, over frames of 16 and 33 ms
EmotionNext ==
  \/ \E deltaTime \in EmotionDeltas : FaceFrame(deltaTime, 50, 50, 50)
  \/ \E emotion \in EmotionNames, weight \in EmotionWeights,
        immediate \in BOOLEAN : SetEmotion(emotion, weight, immediate)

EmotionSpec == FaceInit({0}, EmotionHorizon) /\ [][EmotionNext]_vars

\* the scripted expressions, triggered on a clock that may be ahead of the
\* frame clock
ScriptNext ==
  \/ \E deltaTime \in ScriptDeltas : FaceFrame(deltaTime, 50, 50, 50)
  \/ \E weight \in EmotionWeights : SetEmotion("happy", weight, TRUE)
  \/ \E name \in ScriptedNames, value \in ExpressionValues :
       \/ SetExpression(name, value, 0, "none")
       \/ \E easing \in {"none", "easeOut"} :
            SetExpression(name, value, 500, easing)
  \/ Surprise
  \/ SurpriseTimer
  \/ \E duration \in TalkDurations : Talking(duration)

ScriptSpec == FaceInit(ClockOffsets, ScriptHorizon) /\ [][ScriptNext]_vars

\* the emotion names with a non-zero weight in the expression manager
NonZeroEmotions == {n \in EmotionNames : face.values[n] # 0}

\* C24: in every frame at most one emotion name has a non-zero weight in the
\* expression weight map, so a newly requested emotion stays at 0 until the
\* weight of the old one in the map has reached 0.
C24_OneEmotion == Cardinality(NonZeroEmotions) <= 1

\* what update writes of the emotions in one frame is a single name, the
\* current emotion with its weight before the step
OneEmotionWritten ==
  face.currentTime > 0 =>
    Cardinality(face.produced \cap EmotionNames) <= 1

\* the old emotion has faded out in the controller and the new one is
\* rising, but the last weight written for the old one is still in the map
StaleEmotion ==
  /\ face.emotion.currentEmotion = "sad"
  /\ face.values["sad"] > 0
  /\ face.values["happy"] > 0
  /\ "happy" \notin face.produced

\* C25: after every frame a name that neither the blink, nor the emotions,
\* nor the scripted expressions produced in that frame has weight 0 in the
\* expression weight map: no earlier value survives.
C25_Recomputed ==
  face.currentTime > 0 =>
    \A n \in ExpressionNames \ face.produced : face.values[n] = 0

\* the same for the names that are not emotions: an expression leaves the
\* active set only through talking, which writes 0 in the frame it leaves
ScriptedRecomputed ==
  face.currentTime > 0 =>
    \A n \in ExpressionNames \ (face.produced \cup EmotionNames) :
      face.values[n] = 0

\* an emotion faded to 0 in the controller keeps its last written weight
SurvivingWeight ==
  /\ face.emotion.currentEmotion = "happy"
  /\ face.emotion.emotionWeight = 0
  /\ face.emotion.targetWeight = 0
  /\ "happy" \notin face.produced
  /\ face.values["happy"] > 0

\* C26: every weight written to the expression weight map lies in [0, 1],
\* for all blink updates, emotions set with weights in [0, 1] and scripted
\* or timed expressions with targets in [0, 1], whatever the offset between
\* the clock read at the trigger and the frame clock.
C26_WeightsInRange ==
  \A n \in ExpressionNames : face.values[n] >= 0 /\ face.values[n] <= 1000

\* the same when the two clocks agree
InRangeOnOneClock ==
  face.clockOffset = 0 =>
    \A n \in ExpressionNames : face.values[n] >= 0 /\ face.values[n] <= 1000

\* an expression set with a duration is written with a negative weight in a
\* frame whose clock is behind the start time
NegativeWeight ==
  /\ face.clockOffset > 0
  /\ "surprised" \in DOMAIN face.activeExpressions
  /\ face.activeExpressions["surprised"].kind = "animated"
  /\ face.currentTime < face.activeExpressions["surprised"].startTime
  /\ face.values["surprised"] < 0

\* weight moved toward target by step, stopping at the target
Toward(weight, target, step) ==
  IF Abs(target - weight) <= step THEN target
  ELSE IF target > weight THEN weight + step ELSE weight - step

\* the step is a frame: the frame clock has advanced
IsFrame == face'.currentTime > face.currentTime

\* the frame moved the emotion weight by transitionSpeed * deltaTime
RampedByDeltaTime ==
  IsFrame =>
    face'.emotion.emotionWeight =
      Toward(face.emotion.emotionWeight, face.emotion.targetWeight,
             TransitionSpeed * face'.deltaTime)

\* the frame moved the emotion weight by transitionSpeed * 0.016
RampedByFixedStep ==
  IsFrame =>
    face'.emotion.emotionWeight =
      Toward(face.emotion.emotionWeight, face.emotion.targetWeight,
             TransitionStep)

\* C27: every update moves the emotion weight toward its target by
\* transitionSpeed * deltaTime, stopping at the target, so a ramp takes the
\* same time at every frame duration.
C27_RampByDeltaTime == [][RampedByDeltaTime]_vars

\* every update moves the weight by 0.032, whatever its deltaTime
RampByFixedStep == [][RampedByFixedStep]_vars

\* a frame of 33 ms has moved a rising weight by 0.032
SlowRamp ==
  /\ face.deltaTime = 33
  /\ face.emotion.currentEmotion = "happy"
  /\ face.emotion.targetWeight = 1000
  /\ face.emotion.emotionWeight = 32

\* the frame clock has passed the end of the entry's duration
Completed(entry) ==
  /\ entry.kind # "static"
  /\ face.currentTime - entry.startTime > entry.duration

\* C28: a scripted expression with a duration (timed talking, the pulse of
\* surprise, an expression set with a duration) is no longer in the active
\* set once a frame has seen its duration complete.
C28_RemovedWhenDone ==
  \A n \in DOMAIN face.activeExpressions :
    ~Completed(face.activeExpressions[n])

\* talking is removed by the frame that sees its duration complete
TalkingRemoved ==
  \A n \in DOMAIN face.activeExpressions :
    face.activeExpressions[n].kind = "talking"
      => ~Completed(face.activeExpressions[n])

\* talking has removed itself in the last frame
TalkingLeft ==
  /\ "a" \in face.removed
  /\ "a" \notin DOMAIN face.activeExpressions
  /\ face.values["a"] = 0

\* the second half of surprise has completed and is still in the active set
SurpriseStays ==
  /\ face.surpriseDue < 0
  /\ "surprised" \in DOMAIN face.activeExpressions
  /\ face.activeExpressions["surprised"].kind = "animated"
  /\ face.activeExpressions["surprised"].duration = 500
  /\ face.activeExpressions["surprised"].startValue = 1000
  /\ Completed(face.activeExpressions["surprised"])
  /\ "surprised" \in face.produced

\* the last two blinks are not the two of a double blink
FarApart == face.blink.blinks >= 2 /\ face.blink.quickRun = 0

\* the blink started in the frame just taken
JustStarted == face.blink.lastStart = face.currentTime

\* the statement as first made: between the starts of two consecutive blinks
\* that are not a double blink lie at least 5 s and at most 15 s
C29_IntervalBetweenStarts ==
  FarApart =>
    /\ face.blink.lastStart - face.blink.previousStart >= MinInterval
    /\ face.blink.lastStart - face.blink.previousStart <= MaxInterval

\* C29: with minInterval 5 and maxInterval 15, two consecutive blinks that
\* are not a double blink start at least 5 s apart, and the later one starts
\* in the first frame at or after the completion of the earlier one plus an
\* interval of at least 5 s and less than 15 s: between the completion and
\* the start lie at least 5 s and less than 15 s plus that frame's deltaTime.
C29_IntervalAfterCompletion ==
  FarApart =>
    /\ face.blink.lastStart - face.blink.previousStart >= MinInterval
    /\ face.blink.lastStart - face.blink.previousEnd >= MinInterval
    /\ JustStarted =>
         face.currentTime - face.blink.previousEnd
           < MaxInterval + face.deltaTime

\* the next blink has started more than 15 s after the start of the last
C29_Witness ==
  /\ FarApart
  /\ JustStarted
  /\ face.blink.lastStart - face.blink.previousStart > MaxInterval
  /\ face.blink.lastStart - face.blink.previousEnd < MaxInterval

\* C30: a blink is followed by at most one extra blink, scheduled 0.1 s after
\* its completion; three blinks are never chained by 0.1 s gaps, and
\* doubleBlinkCount is always 0 or 1.
C30_AtMostDouble ==
  /\ face.blink.doubleBlinkCount \in {0, 1}
  /\ face.blink.quickRun <= 1
  /\ face.blink.scheduledQuick /\ ~face.blink.isBlinking
       => face.blink.nextBlinkTime = face.blink.lastEnd + QuickGap

\* the second blink of a double blink has ended and the next blink is
\* scheduled at least 5 s later
C30_Witness ==
  /\ face.blink.quickRun = 1
  /\ ~face.blink.isBlinking
  /\ ~face.blink.scheduledQuick
  /\ ~face.blink.doubleBlinkActive
  /\ face.blink.doubleBlinkCount = 1
  /\ face.blink.nextBlinkTime >= face.blink.lastEnd + MinInterval

\* a double blink is rolled again after an earlier one
SecondDouble ==
  /\ face.blink.blinks >= 2
  /\ face.blink.quickRun = 0
  /\ face.blink.isBlinking
  /\ face.blink.doubleBlinkActive
  /\ face.blink.doubleBlinkCount = 0
  /\ face.blink.previousEnd - face.blink.previousStart > 0
  /\ face.blink.lastStart > MinInterval + QuickGap

\* ------------------------------------------------------------- C31

\* the head angles of s, target and smoothed, are within 90 degrees of yaw
\* and 72 degrees of pitch
WithinHeadLimits(s) ==
  /\ Abs(s.targetHeadRotationY) <= MaxHorizontal
  /\ Abs(s.targetHeadRotationX) <= MaxVertical
  /\ Abs(s.smoothedHeadRotationY) <= MaxHorizontal
  /\ Abs(s.smoothedHeadRotationX) <= MaxVertical

\* C31: in every reachable state of the gaze overlay the head target yaw is
\* within 90 degrees and the head target pitch within 72 degrees, and so are
\* the smoothed head yaw and pitch.
C31_HeadWithinLimits == WithinHeadLimits(lookAt)

\* an update keeps head angles that are within the limits within them
UpdateKeepsHeadLimits ==
  [][lookAt'.updated /\ WithinHeadLimits(lookAt)
       => WithinHeadLimits(lookAt')]_vars

\* lookAtPoint has turned the head target past 90 degrees
HeadPastLimit ==
  /\ lookAt.enabled
  /\ lookAt.targetHeadRotationY > MaxHorizontal
  /\ lookAt.smoothedHeadRotationY > MaxHorizontal
  /\ lookAt.targetHeadRotationX > MaxVertical

\* ------------------------------------------------------------- C32

\* the step is an update of the enabled overlay
EnabledUpdate == lookAt'.updated /\ lookAt.enabled /\ lookAt.hasLookAt

UpdateOnPlaybackPose(s, ticks, direction) ==
  LookAtControllerUpdate([s EXCEPT !.head = Unwritten, !.neck = Unwritten],
                         ticks, direction)

\* the overlay is disabled and an update has released the binding
DisabledAndReleased ==
  /\ lookAt.hasLookAt
  /\ ~lookAt.enabled
  /\ lookAt.updated
  /\ Released

\* C37: once the overlay is disabled and the binding released, a later
\* disabled frame writes neither the head nor the neck: the rotations
\* playback wrote reach the finalization unchanged.
C37_NoWriteAfterRelease ==
  DisabledAndReleased =>
    \A ticks \in Ticks, direction \in Directions :
      LET after == UpdateOnPlaybackPose(lookAt, ticks, direction)
      IN /\ ~after.head.written
         /\ ~after.neck.written

\* What the code does guarantee: after the release every disabled frame
\* sets the head, and the neck if there is one, to a rotation of less than
\* 0.001 rad on both axes, and ends with the binding released again.
NearZeroAfterRelease ==
  DisabledAndReleased =>
    \A ticks \in Ticks, direction \in Directions :
      LET after == UpdateOnPlaybackPose(lookAt, ticks, direction)
      IN /\ after.head.written
         /\ after.neck.written = lookAt.hasNeck
         /\ Abs(after.head.x) < AngleThreshold
         /\ Abs(after.head.y) < AngleThreshold
         /\ Abs(after.neck.x) < AngleThreshold
         /\ Abs(after.neck.y) < AngleThreshold
         /\ after.target = "null"

\* the overlay was turned, disabled, eased back and released, and the
\* frames still overwrite the head
OverwrittenAfterRelease ==
  /\ DisabledAndReleased
  /\ lookAt.hasNeck
  /\ lookAt.smoothedHeadRotationY # 0
  /\ UpdateOnPlaybackPose(lookAt, 1, <<250, -125>>).head.written
  /\ UpdateOnPlaybackPose(lookAt, 1, <<250, -125>>).neck.written

\* ------------------------------------------------------------- C33

\* the step is an update of the limb-spacing overlay that turns the arms by
\* another angle than the update before it did
AppliedChanges ==
  /\ page.applied # << >>
  /\ page'.applied # page.applied

\* C33: the rotation the limb-spacing overlay applies never jumps when
\* setArmSpace changes the offset: the first update after the change
\* applies a value on the way to offset * 0.15, not that value in full.
C33_ConvergesOverFrames ==
  [][AppliedChanges =>
       page'.applied # <<page'.armSpaceOffset * Attenuation>>]_vars

\* What the code does guarantee: every update of the enabled overlay
\* applies offset * 0.15 in full, for the offset of the latest setArmSpace.
AppliedInFull ==
  AfterOverlay => page.applied = <<page.armSpaceOffset * Attenuation>>

\* The overlay applied 0.225 rad for the offset 1.5 in one frame and, the
\* offset set to 2.0 in between, 0.30 rad in the next.
JumpedInFull ==
  /\ AfterOverlay
  /\ page.written
  /\ page.frames = MaxFrames
  /\ page.armSpaceOffset = 200
  /\ page.applied = <<3000>>
  /\ page.right = Bone(page.pose, 3000)

\* ------------------------------------------------------------- C36

\* the sum of the weights of all clips
TotalWeight ==
  FracAdd(Weight(AnimationFiles[1]),
          FracAdd(Weight(AnimationFiles[2]), Weight(AnimationFiles[3])))

\* the cross-fade the last play started is under way: both of its clips
\* have a weight strictly between 0 and 1
MidCrossFade ==
  /\ xfade.on
  /\ 0 < xfade.elapsed
  /\ xfade.elapsed < xfade.dur
  /\ Weight(xfade.to) \notin {Zero, One}
  /\ Weight(xfade.from) \notin {Zero, One}

\* the step is a play of a cached clip that is neither of the two clips of
\* the cross-fade under way
ThirdClipPlayed ==
  /\ MidCrossFade
  /\ lastCall'.op = "play"
  /\ lastCall'.name \in animations \ {xfade.from, xfade.to, xfade.old}

\* C36: a play of a third clip during a cross-fade of two clips leaves the
\* weights of all clips summing to 1 and changes no clip's weight at the
\* call, also when the call first stops the idle loop and plays "idle".
C36_ThirdClipKeepsWeights ==
  [][ThirdClipPlayed =>
       /\ TotalWeight' = One
       /\ \A name \in Clips : Weight(name)' = Weight(name)]_vars

\* What the code does guarantee for such a call made while the idle loop
\* is inactive, with a fade duration above 0: the new clip starts at weight
\* 0, the clip that was fading in is put back to weight 1 to fade out from
\* there, and the clip that was fading out keeps its weight.
ThirdClipRestartsFade ==
  [][ThirdClipPlayed /\ ~idleLoopActive /\ xfade'.dur > 0 =>
       /\ \A name \in Clips : name = lastCall'.name => Weight(name)' = Zero
       /\ \A name \in Clips : name = xfade.to => Weight(name)' = One
       /\ \A name \in Clips :
            name = xfade.from => Weight(name)' = Weight(name)
       /\ xfade'.from = xfade.to]_vars

\* "bow" was played half-way through the cross-fade from "idle" to
\* "idle_happy": idle is at 1/2, idle_happy back at 1, the sum is 3/2.
WeightsAboveOne ==
  /\ lastCall.op = "play"
  /\ lastCall.name = "bow"
  /\ Weight("idle") = Frac(1, 2)
  /\ Weight("idle_happy") = One
  /\ Weight("bow") = Zero
  /\ TotalWeight = Frac(3, 2)

\* ------------------------------------------------------------- C38

\* C38: at most one dwell timer is pending at any time, and none while
\* the idle loop is inactive, after every interleaving of start, stop,
\* play, load completions and timer callbacks.
C38_OneDwellTimer ==
  /\ Cardinality(DOMAIN timers) <= 1
  /\ ~idleLoopActive => DOMAIN timers = {}

\* a timer callback has selected the next clip and scheduled the second
\* timer of the loop, the only one pending
C38_Witness ==
  /\ lastCall.op = "timer"
  /\ lastCall.name # NoAction
  /\ idleLoopActive
  /\ Cardinality(DOMAIN timers) = 1
  /\ idleTimeout \in DOMAIN timers
  /\ idleTimeout > 1

\* ------------------------------------------------------------- C39

\* the step is a start of the idle loop with no idle-pool clip in the cache
StartedOnEmptyPool ==
  /\ lastCall'.op = "start"
  /\ Available = {}

\* C39: a start of the idle loop with no idle-pool clip in the cache
\* leaves the loop inactive, no timer pending and the current clip, its
\* name and every action as they were.
C39_StartWithoutClips ==
  [][StartedOnEmptyPool =>
       /\ ~idleLoopActive'
       /\ DOMAIN timers' = {}
       /\ idleTimeout' = NoTimer
       /\ UNCHANGED <<currentAction, currentActionName, actions, xfade>>]_vars

\* the loop was started after the load of both idle clips failed, while
\* the clip outside the pool was playing
C39_Witness ==
  /\ lastCall.op = "start"
  /\ Available = {}
  /\ loadIdx = LoadDone
  /\ currentAction = "bow"
  /\ Weight("bow") = One
  /\ ~idleLoopActive
  /\ DOMAIN timers = {}

\* the same before any clip has finished loading
StartedBeforeLoad ==
  /\ lastCall.op = "start"
  /\ animations = {}
  /\ loadIdx = 1
  /\ currentAction = NoAction
  /\ ~idleLoopActive

\* ------------------------------------------------------------- C40

\* talking is in the active set
TalkingActive ==
  /\ "a" \in DOMAIN face.activeExpressions
  /\ face.activeExpressions["a"].kind = "talking"

\* the frame-clock time since talking was triggered, as the frame before
\* the last one saw it (negative when the trigger came later)
SinceTrigger ==
  (face.currentTime - face.deltaTime)
    - (face.activeExpressions["a"].startTime - face.clockOffset)

\* the last frame wrote "a" from the closure of talking
WrittenByTalking ==
  /\ "a" \in face.produced
  /\ \/ "a" \in face.removed
     \/ /\ TalkingActive
        /\ face.activeExpressions["a"].startTime - face.clockOffset
             < face.currentTime

\* talking writes weights in [0, 0.3] only, and has left the active set
\* after the frame that follows the first frame at or past the duration
TalkingEndsOnTime ==
  /\ WrittenByTalking => face.values["a"] \in 0..300
  /\ TalkingActive => SinceTrigger < face.activeExpressions["a"].duration

\* C40: talking triggered with duration d writes weights in [0, 0.3] only
\* and is removed from the active set no later than one frame after d
\* seconds of frame-clock time have passed since the trigger, whatever the
\* offset between the clock read at the trigger and the frame clock.
C40_TalkingBounded == TalkingEndsOnTime

\* What the code does guarantee: the same when the two clocks agree, and
\* weights in [0, 0.3] and the removal by the first frame later than the
\* recorded start time plus d in every case.
TalkingOnOneClock ==
  /\ face.clockOffset = 0 => TalkingEndsOnTime
  /\ WrittenByTalking => face.values["a"] \in 0..300
  /\ TalkingActive =>
       face.currentTime - face.activeExpressions["a"].startTime
         <= face.activeExpressions["a"].duration

\* talking of 0.2 s triggered with the clocks 0.3 s apart is still active
\* after two frames of 0.25 s
TalkingLate ==
  /\ TalkingActive
  /\ face.clockOffset = 300
  /\ face.activeExpressions["a"].duration = 200
  /\ face.activeExpressions["a"].startTime = 300
  /\ face.currentTime = 500
  /\ face.deltaTime = 250
  /\ "a" \in face.produced

\* -------------------------------------------- the emotions, with frames
\* that keep arriving

\* the calls of setEmotion followed
MaxEmotionCalls == 4

\* how long the frame clock is followed, in ms; the emotions do not read it
LiveHorizon == 32

\* deltaTime of the frames, in ms
LiveDelta == 16

\* emotionController.setEmotion(emotion, weight, immediate), the request
\* noted in requested
RequestEmotion(emotion, weight, immediate) ==
  /\ face.pc = "face"
  /\ face.calls < MaxEmotionCalls
  /\ face' = [face EXCEPT
                !.calls = @ + 1,
                !.requested = <<emotion, weight>>,
                !.emotion = SetEmotionOf(@, emotion, weight, immediate)]
  /\ UNCHANGED Apart

\* one frame of animate: expressionController.update runs; past the
\* horizon the frame clock is held
EmotionFrame ==
  /\ face.pc = "face"
  /\ face' = ExpressionControllerUpdate(
               face, Min(face.currentTime + LiveDelta, face.horizon),
               LiveDelta, 50, 50, 50)
  /\ UNCHANGED Apart

EmotionLiveNext ==
  \/ EmotionFrame
  \/ \E emotion \in EmotionNames, weight \in EmotionWeights,
        immediate \in BOOLEAN : RequestEmotion(emotion, weight, immediate)

\* requestAnimationFrame keeps calling animate()
EmotionLiveSpec ==
  /\ FaceInit({0}, LiveHorizon)
  /\ [][EmotionLiveNext]_vars
  /\ WF_vars(EmotionFrame)

\* ------------------------------------------------------------- C34

\* the emotion last requested is the current one, at the weight requested
RequestReached ==
  /\ face.emotion.currentEmotion = face.requested[1]
  /\ face.emotion.emotionWeight = face.requested[2]

\* the current emotion rests at weight 0 with target 0 while another one
\* is pending
PendingAtRest ==
  /\ face.emotion.pendingEmotion # "null"
  /\ face.emotion.emotionWeight = 0
  /\ face.emotion.targetWeight = 0

\* an emotion other than the one last requested is pending, or has become
\* the current emotion
StalePending ==
  \/ /\ face.emotion.pendingEmotion # "null"
     /\ face.emotion.pendingEmotion # face.requested[1]
  \/ /\ face.emotion.pendingEmotion = "null"
     /\ face.emotion.currentEmotion # face.requested[1]

\* C34: after setEmotion(B, w) with no further setEmotion call, finitely
\* many updates make B the current emotion at weight w, from every
\* reachable state, also when the previous emotion is at weight 0 with
\* target 0 at the call.
C34_RequestTakesEffect ==
  \A k \in 1..MaxEmotionCalls :
    (face.calls = k) ~> (RequestReached \/ face.calls > k)

\* What the code does guarantee: the same unless the previous emotion
\* rests at weight 0 with target 0 at the call, or an emotion of an
\* earlier request is still pending or has taken over.
TakesEffectUnlessAtRest ==
  \A k \in 1..MaxEmotionCalls :
    (face.calls = k)
      ~> (RequestReached \/ face.calls > k \/ PendingAtRest \/ StalePending)

\* "sad" was requested at weight 1 while "happy" rested at weight 0, and
\* frames have passed: "happy" is still the current emotion
RequestStuck ==
  /\ face.requested = <<"sad", 1000>>
  /\ face.emotion.currentEmotion = "happy"
  /\ PendingAtRest
  /\ face.currentTime = face.horizon
  /\ face.calls = 2

\* ------------------------------------------------------------- C35

\* C35: a request superseded by a later one never takes effect: the
\* current emotion only ever changes to the emotion last requested, so
\* after setEmotion(A), setEmotion(B), setEmotion(A) the emotion B does not
\* become current unless it is requested again, whatever the weights.
C35_SupersededNeverCurrent ==
  [][face'.emotion.currentEmotion # face.emotion.currentEmotion
       => face'.emotion.currentEmotion = face'.requested[1]]_vars

\* What the code does guarantee: the current emotion changes to the
\* emotion last requested or to the pending one, and a later request for
\* the current emotion leaves the pending one in place.
CurrentFromPending ==
  [][face'.emotion.currentEmotion # face.emotion.currentEmotion
       => \/ face'.emotion.currentEmotion = face'.requested[1]
          \/ /\ face'.emotion.currentEmotion = face.emotion.pendingEmotion
             /\ face'.calls = face.calls]_vars

\* "sad" is the current emotion and rising although "happy" was requested
\* last
SupersededCurrent ==
  /\ face.requested[1] = "happy"
  /\ face.emotion.currentEmotion = "sad"
  /\ face.emotion.emotionWeight > 0
  /\ face.emotion.pendingEmotion = "null"

============================================================================
